---- MODULE Spec2Model ----
(***************************************************************************)
(* Containment resolution over a markdown syntax tree                      *)
(* (src/src/markdown.ts, processHierarchicalRelationships).                *)
(*                                                                         *)
(* A syntax tree is a sequence of nodes in document (pre-order) order;     *)
(* a node is identified by its index in that sequence, which stands for    *)
(* JavaScript object identity.  Each node records its mdast `type`, its    *)
(* `depth` (headings only, 0 otherwise) and the index of its parent        *)
(* (0 for the root).                                                       *)
(***************************************************************************)
EXTENDS Integers, Sequences, FiniteSets, TLC

\* Largest number of nodes of an input tree, the root included.
MaxNodes == 6

\* Largest heading depth of an input tree (mdast allows 1..6).
MaxDepth == 2

VARIABLES
    tree,            \* the parsed document handed to the pass (never mutated structurally)
    pc,              \* index of the node the traversal hands to the visitor next
    phase,           \* position inside the visitor callback
    containerStack,  \* the stack of open containers (node indices)
    edges,           \* the (container, member) pairs given to the callback so far
    containerType,   \* ExtendedNode.containerType of every node ("none" = unset)
    headingLevel,    \* ExtendedNode.headingLevel of every node (0 = unset)
    entryStack,      \* history: containerStack when the visitor was entered for a node
    containedNodes,  \* ExtendedNode.containedNodes of the nodes that carry the field
    calls,           \* completed calls of buildContainmentTree on the tree
    firstResult,     \* history: containedNodes as the first call left it
    position,        \* node.position of each node of a positioned tree
    cursorPosition,  \* the editor cursor handed to findNodeAtCursor
    matchingNode,    \* what findNodeAtCursor returned (0: undefined)
    nodeAtCursor,    \* the node handed to buildContextFromNode (0: undefined)
    context,         \* the lines buildContextFromNode returned
    nodeArea,        \* what calculateNodeArea returned for each node measured
    callStack,       \* the active calls of inspectContainmentTree's visit
    visitedInThisPath,
    allVisitedNodes,
    output,          \* the lines inspectContainmentTree has written
    posted,          \* KuzuClient: the requests posted to the worker, in order
    messageHandlers, \* KuzuClient: the ids that have a pending handler
    timers,          \* KuzuClient: the ids whose timeout is armed
    promise,         \* KuzuClient: the promise sendMessage returned, per id
    lastEvent,       \* history: the last handler of the client that ran
    closing,         \* KuzuClient: the id of the persist request close() awaits (0: none)
    closeResult,     \* KuzuClient: the promise close() returned ("none": not called)
    terminated,      \* KuzuClient: worker.terminate() was called
    apiCalls,        \* KuzuClient: the calls of transaction() and queries()
    isInitialized,   \* worker: the flag handleInit sets
    received,        \* worker: the requests delivered to ctx.onmessage, in order
    suspended,       \* worker: the init requests whose handler waits for kuzu.init()
    responses,       \* worker: the responses given to ctx.postMessage, in order
    isReady,         \* AstGraphService.isReady
    nodeIdCounter,   \* AstGraphService.nodeIdCounter
    nodeIDs,         \* AstGraphService.nodeIDs: node -> id
    serviceCalls     \* AstGraphService: the calls of processAst

resolverVars ==
    <<tree, pc, phase, containerStack, edges, containerType, headingLevel, entryStack>>

buildVars == <<containedNodes, calls, firstResult>>

cursorVars == <<position, cursorPosition, matchingNode, nodeAtCursor, context, nodeArea>>

inspectVars == <<callStack, visitedInThisPath, allVisitedNodes, output>>

closeVars == <<closing, closeResult, terminated>>

clientVars == <<posted, messageHandlers, timers, promise, lastEvent, closeVars, apiCalls>>

\* What the resolver itself never touches.
workerVars == <<isInitialized, received, suspended, responses>>

serviceVars == <<isReady, nodeIdCounter, nodeIDs, serviceCalls>>

others == <<buildVars, cursorVars, inspectVars, clientVars, workerVars, serviceVars>>

vars == <<resolverVars, others>>

----------------------------------------------------------------------------
(* Syntax trees                                                            *)

Root == 1

\* const ignoreTypes = ['root', 'list', 'text', 'strong', 'emphasis']
ignoreTypes == {"root", "list", "text", "strong", "emphasis"}

\* mdast flow content: what root, listItem and blockquote may hold.  The
\* paragraph stands for every block kind that is neither ignored nor a
\* container nor a thematic break (code, html, table, ...): the resolver
\* tells them apart by no test.
FlowNodes ==
    [type : {"heading"}, depth : 1..MaxDepth]
        \cup [type : {"paragraph", "list", "blockquote", "thematicBreak"},
              depth : {0}]

\* mdast phrasing content: what a paragraph may hold.
PhrasingNodes == [type : {"text", "emphasis", "strong"}, depth : {0}]

\* Plain text, the content of headings and of emphasis and strong spans.
TextNodes == [type : {"text"}, depth : {0}]

\* The children the mdast content model allows under a node of the given type.
AllowedChildren(type) ==
    CASE type \in {"root", "listItem", "blockquote"} -> FlowNodes
      [] type = "list" -> [type : {"listItem"}, depth : {0}]
      [] type = "paragraph" -> PhrasingNodes
      [] type \in {"heading", "emphasis", "strong"} -> TextNodes
      [] OTHER -> {}

\* The node and its ancestors, in a pre-order sequence t.
RECURSIVE AncestorsOrSelf(_, _)
AncestorsOrSelf(t, n) ==
    IF n = 0 THEN {} ELSE {n} \cup AncestorsOrSelf(t, t[n].parent)

Children(t, n) == { c \in 1..Len(t) : t[c].parent = n }

\* The parser never yields a list without items, nor a paragraph, emphasis
\* or strong span without content.
WellFormed(t) ==
    \A n \in 1..Len(t) :
        t[n].type \in {"list", "paragraph", "emphasis", "strong"}
            => Children(t, n) # {}

----------------------------------------------------------------------------
(* Helpers of the resolver                                                 *)

Top(stack) == stack[Len(stack)]

Pop(stack) == SubSeq(stack, 1, Len(stack) - 1)

\* Variant: 'list' is missing from the ignored kinds.
IsIgnoredNoList(node) == node.type \in (ignoreTypes \ {"list"})

\* ignoreTypes.includes(node.type)
IsIgnored(node) == node.type \in ignoreTypes

\* Variant: the thematic-break test compares with a misspelt kind.
IsThematicBreakMisspelt(node) == node.type = "thematicbreak"

\* node.type === 'thematicBreak'
IsThematicBreak(node) == node.type = "thematicBreak"

\* function isContainerNode(node)
isContainerNode(node) ==
    \/ node.type = "root"
    \/ node.type = "heading"
    \/ node.type = "listItem"
    \/ node.type = "blockquote"

\* function getContainerType(node); it is only called on container nodes, so
\* its throw is never reached.
getContainerType(node) ==
    CASE node.type = "root" -> "root"
      [] node.type = "heading" -> "heading"
      [] node.type = "listItem" -> "listItem"
      [] node.type = "blockquote" -> "blockquote"

\* function isDirectParentListItem(potentialParent, child, childParent):
\* childParent is the parent the traversal reports for child.
isDirectParentListItem(t, potentialParent, child) ==
    LET childParent == t[child].parent IN
    /\ childParent # 0
    /\ t[childParent].type = "list"
    /\ \E item \in Children(t, potentialParent) :
           t[item].type = "list" /\ item = childParent

\* Variant: the visitor returns SKIP, so the traversal goes on after the
\* node's subtree.
AfterSkip(t, n) ==
    LET outside == { m \in (n + 1)..Len(t) : n \notin AncestorsOrSelf(t, m) }
    IN IF outside = {} THEN Len(t) + 1
       ELSE CHOOSE m \in outside : \A o \in outside : m <= o

\* The visitor returns CONTINUE (or nothing): the traversal goes on with the
\* next node in pre-order, the node's children included.
AfterContinue(t, n) == n + 1

\* Variant: the thematic-break loop runs while the stack is not empty.
BreakLoopCondNonEmpty(stack) == Len(stack) > 0

\* Variant: the thematic-break loop stops one scope above the root.
BreakLoopCondShort(stack) == Len(stack) > 2

\* while (containerStack.length > 1), thematic break
BreakLoopCond(stack) == Len(stack) > 1

\* while (containerStack.length > 1), heading
HeadingLoopCond(stack) == Len(stack) > 1

\* Variant: the loop stops at the first top that is not a list item.
ListLoopCondItemsOnly(stack) ==
    Len(stack) > 1 /\ containerType[Top(stack)] = "listItem"

\* while (containerStack.length > 1), list item
ListLoopCond(stack) == Len(stack) > 1

\* Variant: a heading of the same level is kept (<= for <).
HeadingKeepsTopOrEqual(cType, hLevel, top, level) ==
    IF cType[top] = "heading"
    THEN hLevel[top] <= level
    ELSE cType[top] = "root"

\* Variant: only headings are popped; a list item or blockquote on top ends
\* the loop.
HeadingKeepsTopNonHeading(cType, hLevel, top, level) ==
    IF cType[top] = "heading"
    THEN hLevel[top] < level
    ELSE TRUE

\* The two `break` tests of the heading loop: the top container is a heading
\* of a strictly lower level number, or it is the root.
HeadingKeepsTop(cType, hLevel, top, level) ==
    IF cType[top] = "heading"
    THEN hLevel[top] < level          \* (topContainer.headingLevel || 0) < headingLevel
    ELSE cType[top] = "root"

\* Variant: a list item on top sends every list item into the loop, its
\* direct parent included.
ListItemUnwindsUnderParent(t, cType, top, node) ==
    cType[top] = "listItem"

\* The test that sends a list item into the unwinding loop.
ListItemUnwinds(t, cType, top, node) ==
    /\ cType[top] = "listItem"
    /\ ~isDirectParentListItem(t, top, node)

\* Variant: the callback is given its two arguments in the other order.
EmitSwapped(es, container, member) ==
    Append(es, [container |-> member, member |-> container])

\* callback(container, currentNode)
Emit(es, container, member) ==
    Append(es, [container |-> container, member |-> member])

----------------------------------------------------------------------------
(* processHierarchicalRelationships as a state machine                     *)

Running == phase # "parse"

Done == Running /\ pc = Len(tree) + 1

Visiting == phase = "visit" /\ pc \in 1..Len(tree)

Enter == entryStack' = [entryStack EXCEPT ![pc] = containerStack]

\* Before a document is parsed: only the root node exists and no pass runs.
Init ==
    /\ tree = << [type |-> "root", depth |-> 0, parent |-> 0] >>
    /\ pc = 0
    /\ phase = "parse"
    /\ containerStack = << >>
    /\ edges = << >>
    /\ containerType = << >>
    /\ headingLevel = << >>
    /\ entryStack = << >>
    /\ containedNodes = << >>
    /\ calls = 0
    /\ firstResult = << >>
    /\ position = << >>
    /\ cursorPosition = [line |-> 0, ch |-> 0]
    /\ matchingNode = 0
    /\ nodeAtCursor = 0
    /\ context = << >>
    /\ nodeArea = << >>
    /\ callStack = << >>
    /\ visitedInThisPath = {}
    /\ allVisitedNodes = {}
    /\ output = << >>
    /\ posted = << >>
    /\ messageHandlers = {}
    /\ timers = {}
    /\ promise = << >>
    /\ lastEvent = [handler |-> "none", id |-> 0, type |-> "none"]
    /\ closing = 0
    /\ closeResult = "none"
    /\ terminated = FALSE
    /\ apiCalls = << >>
    /\ isInitialized = FALSE
    /\ received = << >>
    /\ suspended = {}
    /\ responses = << >>
    /\ isReady = FALSE
    /\ nodeIdCounter = 0
    /\ nodeIDs = << >>
    /\ serviceCalls = << >>

\* The parser (parseMarkdownToAST) yields the document node by node in
\* document order: the next node hangs under the last node or one of its
\* ancestors and is of a kind its parent may hold.
ParseNode ==
    /\ phase = "parse"
    /\ Len(tree) < MaxNodes
    /\ \E p \in AncestorsOrSelf(tree, Len(tree)) :
          \E k \in AllowedChildren(tree[p].type) :
              tree' = Append(tree, [type |-> k.type, depth |-> k.depth, parent |-> p])
    /\ UNCHANGED <<pc, phase, containerStack, edges, containerType, headingLevel, entryStack>>
    /\ UNCHANGED others

\* processHierarchicalRelationships(ast, callback) is called on a parsed
\* document: the root is tagged and pushed, nothing is visited yet.
StartPass ==
    /\ phase = "parse"
    /\ WellFormed(tree)
    /\ containerStack' = << Root >>
    /\ containerType' = [n \in 1..Len(tree) |-> IF n = Root THEN "root" ELSE "none"]
    /\ headingLevel' = [n \in 1..Len(tree) |-> 0]
    /\ entryStack' = [n \in 1..Len(tree) |-> << >>]
    /\ edges' = << >>
    /\ pc' = 1
    /\ phase' = "visit"
    /\ UNCHANGED tree
    /\ UNCHANGED others

\* if (ignoreTypes.includes(node.type)) return CONTINUE
VisitIgnored ==
    /\ Visiting
    /\ IsIgnored(tree[pc])
    /\ Enter
    /\ pc' = AfterContinue(tree, pc)
    /\ UNCHANGED <<tree, phase, containerStack, edges, containerType, headingLevel>>
    /\ UNCHANGED others

\* if (node.type === 'thematicBreak') { while ... }
VisitThematicBreak ==
    /\ Visiting
    /\ ~IsIgnored(tree[pc])
    /\ IsThematicBreak(tree[pc])
    /\ Enter
    /\ phase' = "breakUnwind"
    /\ UNCHANGED <<tree, pc, containerStack, edges, containerType, headingLevel>>
    /\ UNCHANGED others

BreakPop ==
    /\ phase = "breakUnwind"
    /\ BreakLoopCond(containerStack)
    /\ containerStack' = Pop(containerStack)
    /\ UNCHANGED <<tree, pc, phase, edges, containerType, headingLevel, entryStack>>
    /\ UNCHANGED others

\* thematic breaks don't belong anywhere: return CONTINUE
BreakDone ==
    /\ phase = "breakUnwind"
    /\ ~BreakLoopCond(containerStack)
    /\ pc' = AfterContinue(tree, pc)
    /\ phase' = "visit"
    /\ UNCHANGED <<tree, containerStack, edges, containerType, headingLevel, entryStack>>
    /\ UNCHANGED others

\* isContainerNode(node), node.type === 'heading'
VisitHeading ==
    /\ Visiting
    /\ ~IsIgnored(tree[pc])
    /\ ~IsThematicBreak(tree[pc])
    /\ isContainerNode(tree[pc])
    /\ tree[pc].type = "heading"
    /\ Enter
    /\ containerType' = [containerType EXCEPT ![pc] = getContainerType(tree[pc])]
    /\ headingLevel' = [headingLevel EXCEPT ![pc] = tree[pc].depth]
    /\ phase' = "headingTrim"
    /\ UNCHANGED <<tree, pc, containerStack, edges>>
    /\ UNCHANGED others

\* containerStack.pop() in the heading loop
HeadingPop ==
    /\ phase = "headingTrim"
    /\ HeadingLoopCond(containerStack)
    /\ ~HeadingKeepsTop(containerType, headingLevel, Top(containerStack), headingLevel[pc])
    /\ containerStack' = Pop(containerStack)
    /\ UNCHANGED <<tree, pc, phase, edges, containerType, headingLevel, entryStack>>
    /\ UNCHANGED others

\* the heading loop ends: its condition fails or one of its breaks is taken
HeadingStop ==
    /\ phase = "headingTrim"
    /\ \/ ~HeadingLoopCond(containerStack)
       \/ HeadingKeepsTop(containerType, headingLevel, Top(containerStack), headingLevel[pc])
    /\ phase' = "attach"
    /\ UNCHANGED <<tree, pc, containerStack, edges, containerType, headingLevel, entryStack>>
    /\ UNCHANGED others

\* isContainerNode(node), node.type === 'listItem'
VisitListItem ==
    /\ Visiting
    /\ ~IsIgnored(tree[pc])
    /\ ~IsThematicBreak(tree[pc])
    /\ isContainerNode(tree[pc])
    /\ tree[pc].type = "listItem"
    /\ Enter
    /\ containerType' = [containerType EXCEPT ![pc] = getContainerType(tree[pc])]
    /\ phase' = IF ListItemUnwinds(tree, containerType', Top(containerStack), pc)
                THEN "listUnwind" ELSE "attach"
    /\ UNCHANGED <<tree, pc, containerStack, edges, headingLevel>>
    /\ UNCHANGED others

\* containerStack.pop() in the list-item loop
ListPop ==
    /\ phase = "listUnwind"
    /\ ListLoopCond(containerStack)
    /\ containerStack' = Pop(containerStack)
    /\ UNCHANGED <<tree, pc, phase, edges, containerType, headingLevel, entryStack>>
    /\ UNCHANGED others

ListDone ==
    /\ phase = "listUnwind"
    /\ ~ListLoopCond(containerStack)
    /\ phase' = "attach"
    /\ UNCHANGED <<tree, pc, containerStack, edges, containerType, headingLevel, entryStack>>
    /\ UNCHANGED others

\* isContainerNode(node), blockquote: "just process normally"
VisitBlockquote ==
    /\ Visiting
    /\ ~IsIgnored(tree[pc])
    /\ ~IsThematicBreak(tree[pc])
    /\ isContainerNode(tree[pc])
    /\ tree[pc].type \notin {"heading", "listItem"}
    /\ Enter
    /\ containerType' = [containerType EXCEPT ![pc] = getContainerType(tree[pc])]
    /\ phase' = "attach"
    /\ UNCHANGED <<tree, pc, containerStack, edges, headingLevel>>
    /\ UNCHANGED others

\* callback(container, currentNode); containerStack.push(currentNode)
Attach ==
    /\ phase = "attach"
    /\ edges' = Emit(edges, Top(containerStack), pc)
    /\ containerStack' = Append(containerStack, pc)
    /\ pc' = AfterContinue(tree, pc)
    /\ phase' = "visit"
    /\ UNCHANGED <<tree, containerType, headingLevel, entryStack>>
    /\ UNCHANGED others

\* Variant: a non-container node is attached to the root.
EmitContainerRoot(stack) == Root

\* const container = containerStack[containerStack.length - 1], for a node
\* that is not a container
EmitContainer(stack) == Top(stack)

\* non-container node: callback(container, currentNode)
VisitOther ==
    /\ Visiting
    /\ ~IsIgnored(tree[pc])
    /\ ~IsThematicBreak(tree[pc])
    /\ ~isContainerNode(tree[pc])
    /\ Enter
    /\ edges' = Emit(edges, EmitContainer(containerStack), pc)
    /\ pc' = AfterContinue(tree, pc)
    /\ UNCHANGED <<tree, phase, containerStack, containerType, headingLevel>>
    /\ UNCHANGED others

Next ==
    \/ ParseNode
    \/ StartPass
    \/ VisitIgnored
    \/ VisitThematicBreak
    \/ BreakPop
    \/ BreakDone
    \/ VisitHeading
    \/ HeadingPop
    \/ HeadingStop
    \/ VisitListItem
    \/ ListPop
    \/ ListDone
    \/ VisitBlockquote
    \/ Attach
    \/ VisitOther

Spec == Init /\ [][Next]_vars

----------------------------------------------------------------------------
(* The resolver on a tree with a malformed heading                         *)

\* Largest number of nodes of a tree that may hold headings without depth.
MaxLooseNodes == 5

\* A heading whose depth field is absent; depth 0 stands for undefined, which
\* the resolver's comparisons treat alike (undefined || 0 on the left,
\* x < undefined false on the right).
DepthlessHeading == [type |-> "heading", depth |-> 0]

\* Flow content when the producer of the tree may leave out a heading's depth.
LooseChildren(type) ==
    IF type \in {"root", "listItem", "blockquote"}
    THEN AllowedChildren(type) \cup {DepthlessHeading}
    ELSE AllowedChildren(type)

\* A tree handed to the resolver by a caller that does not guarantee depths.
ParseLooseNode ==
    /\ phase = "parse"
    /\ Len(tree) < MaxLooseNodes
    /\ \E p \in AncestorsOrSelf(tree, Len(tree)) :
          \E k \in LooseChildren(tree[p].type) :
              tree' = Append(tree, [type |-> k.type, depth |-> k.depth, parent |-> p])
    /\ UNCHANGED <<pc, phase, containerStack, edges, containerType, headingLevel, entryStack>>
    /\ UNCHANGED others

NextMalformed ==
    \/ ParseLooseNode
    \/ StartPass
    \/ VisitIgnored
    \/ VisitThematicBreak
    \/ BreakPop
    \/ BreakDone
    \/ VisitHeading
    \/ HeadingPop
    \/ HeadingStop
    \/ VisitListItem
    \/ ListPop
    \/ ListDone
    \/ VisitBlockquote
    \/ Attach
    \/ VisitOther

SpecMalformed == Init /\ [][NextMalformed]_vars


----------------------------------------------------------------------------
(* The resolver on a tree with nodes of kinds it does not know             *)

\* Largest number of nodes of a tree that may hold nodes of a plugin's kind.
MaxForeignNodes == 5

\* A node of a kind that a parser plugin adds (remark-custom-tasks,
\* remark-frontmatter): the resolver has no test for it.
ForeignNode == [type |-> "custom", depth |-> 0]

\* The content model with the plugin's kind: it may stand where flow content
\* stands and may itself hold flow content.
ForeignChildren(type) ==
    IF type \in {"root", "listItem", "blockquote", "custom"}
    THEN AllowedChildren("root") \cup {ForeignNode}
    ELSE AllowedChildren(type)

\* A tree produced by the parser with its plugins.
ParseForeignNode ==
    /\ phase = "parse"
    /\ Len(tree) < MaxForeignNodes
    /\ \E p \in AncestorsOrSelf(tree, Len(tree)) :
          \E k \in ForeignChildren(tree[p].type) :
              tree' = Append(tree, [type |-> k.type, depth |-> k.depth, parent |-> p])
    /\ UNCHANGED <<pc, phase, containerStack, edges, containerType, headingLevel, entryStack>>
    /\ UNCHANGED others

NextForeign ==
    \/ ParseForeignNode
    \/ StartPass
    \/ VisitIgnored
    \/ VisitThematicBreak
    \/ BreakPop
    \/ BreakDone
    \/ VisitHeading
    \/ HeadingPop
    \/ HeadingStop
    \/ VisitListItem
    \/ ListPop
    \/ ListDone
    \/ VisitBlockquote
    \/ Attach
    \/ VisitOther

SpecForeign == Init /\ [][NextForeign]_vars

----------------------------------------------------------------------------
(* buildContainmentTree and getContainedNodes.

   buildContainmentTree runs one resolver pass, collects the emitted pairs
   in nodeMap (container -> members, in emission order) and then stores each
   entry of nodeMap in the container's containedNodes field.  The fields the
   resolver and the builder write (containerType, headingLevel,
   containedNodes) stay on the nodes of the tree between calls. *)

MaxBuildNodes == 5
MaxCalls == 2

\* getContainedNodes' inner search returns an array or null.
Null == [isNull |-> TRUE, nodes |-> << >>]

Array(s) == [isNull |-> FALSE, nodes |-> s]

\* nodeMap.keys(): the containers the callback was called for.
NodeMapKeys(es) == {es[i].container : i \in DOMAIN es}

\* Variant: every member is put in front of the members pushed before it.
RECURSIVE NodeMapGetReversed(_, _)
NodeMapGetReversed(es, container) ==
    IF es = << >> THEN << >>
    ELSE LET rest == NodeMapGetReversed(SubSeq(es, 1, Len(es) - 1), container)
             last == es[Len(es)]
         IN IF last.container = container THEN <<last.member>> \o rest ELSE rest

\* nodeMap.get(container): the members pushed for it, in callback order.
RECURSIVE NodeMapGet(_, _)
NodeMapGet(es, container) ==
    IF es = << >> THEN << >>
    ELSE LET rest == NodeMapGet(SubSeq(es, 1, Len(es) - 1), container)
             last == es[Len(es)]
         IN IF last.container = container THEN Append(rest, last.member) ELSE rest

\* Variant: the entries of nodeMap are appended to the field a container already has.
AttachedAppending(old, es) ==
    [n \in DOMAIN old \cup NodeMapKeys(es) |->
        IF n \in NodeMapKeys(es)
        THEN (IF n \in DOMAIN old THEN old[n] ELSE << >>) \o NodeMapGet(es, n)
        ELSE old[n]]

\* for (const [container, containedNodes] of nodeMap.entries())
\*     container.containedNodes = containedNodes
\* A node that is no key of nodeMap keeps the field it had.
Attached(old, es) ==
    [n \in DOMAIN old \cup NodeMapKeys(es) |->
        IF n \in NodeMapKeys(es) THEN NodeMapGet(es, n) ELSE old[n]]

\* The document handed to buildContainmentTree.
ParseBuildNode ==
    /\ phase = "parse"
    /\ Len(tree) < MaxBuildNodes
    /\ \E p \in AncestorsOrSelf(tree, Len(tree)) :
          \E k \in AllowedChildren(tree[p].type) :
              tree' = Append(tree, [type |-> k.type, depth |-> k.depth, parent |-> p])
    /\ UNCHANGED <<pc, phase, containerStack, edges, containerType, headingLevel, entryStack>>
    /\ UNCHANGED others

\* The pass of the call is over: the entries of nodeMap are attached and
\* the root is returned.
AttachContainedNodes ==
    /\ phase = "visit"
    /\ Done
    /\ containedNodes' = Attached(containedNodes, edges)
    /\ calls' = calls + 1
    /\ firstResult' = IF calls = 0 THEN containedNodes' ELSE firstResult
    /\ phase' = "built"
    /\ UNCHANGED <<tree, pc, containerStack, edges, containerType, headingLevel, entryStack>>
    /\ UNCHANGED <<cursorVars, inspectVars, clientVars, workerVars, serviceVars>>

\* buildContainmentTree is called again on the tree it returned: a new
\* nodeMap, and a new pass whose stack holds the root, tagged 'root' again.
\* The other nodes still carry the fields of the previous call.
BuildAgain ==
    /\ phase = "built"
    /\ calls < MaxCalls
    /\ containerStack' = << Root >>
    /\ containerType' = [containerType EXCEPT ![Root] = "root"]
    /\ entryStack' = [n \in 1..Len(tree) |-> << >>]
    /\ edges' = << >>
    /\ pc' = 1
    /\ phase' = "visit"
    /\ UNCHANGED <<tree, headingLevel>>
    /\ UNCHANGED others

\* getContainedNodes(tree, targetNode).  Target 0 is a node that is not part
\* of the tree.  An array is truthy even when it is empty.
RECURSIVE findContainedNodesForTarget(_, _, _)
RECURSIVE findInMembers(_, _, _, _)
findContainedNodesForTarget(cn, node, target) ==
    IF node = target
    THEN Array(IF node \in DOMAIN cn THEN cn[node] ELSE << >>)
    ELSE IF node \in DOMAIN cn
         THEN findInMembers(cn, cn[node], 1, target)
         ELSE Null

findInMembers(cn, members, i, target) ==
    IF i > Len(members) THEN Null
    ELSE LET result == findContainedNodesForTarget(cn, members[i], target)
         IN IF ~result.isNull THEN result
            ELSE findInMembers(cn, members, i + 1, target)

\* Variant: the result of the search is returned as it is, without '|| []'.
getContainedNodesNoDefault(cn, target) ==
    IF target \in DOMAIN cn
    THEN Array(cn[target])
    ELSE findContainedNodesForTarget(cn, Root, target)

\* return findContainedNodesForTarget(tree) || []
getContainedNodes(cn, target) ==
    IF target \in DOMAIN cn
    THEN Array(cn[target])
    ELSE LET found == findContainedNodesForTarget(cn, Root, target)
         IN IF found.isNull THEN Array(<< >>) ELSE found

NextBuild ==
    \/ ParseBuildNode
    \/ StartPass
    \/ VisitIgnored
    \/ VisitThematicBreak
    \/ BreakPop
    \/ BreakDone
    \/ VisitHeading
    \/ HeadingPop
    \/ HeadingStop
    \/ VisitListItem
    \/ ListPop
    \/ ListDone
    \/ VisitBlockquote
    \/ Attach
    \/ VisitOther
    \/ AttachContainedNodes
    \/ BuildAgain

SpecBuild == Init /\ [][NextBuild]_vars

\* Between two calls the caller edits the tree it holds: it changes the
\* depth of a heading, or removes the last node of the document together
\* with the fields stored on it.  The fields of the other nodes stay.
EditTree ==
    /\ phase = "built"
    /\ calls < MaxCalls
    /\ \/ /\ \E h \in 1..Len(tree), d \in 1..MaxDepth :
                /\ tree[h].type = "heading"
                /\ d # tree[h].depth
                /\ tree' = [tree EXCEPT ![h].depth = d]
          /\ UNCHANGED <<containerType, headingLevel, entryStack, containedNodes>>
       \/ /\ Len(tree) > 1
          /\ LET kept == 1..(Len(tree) - 1)
             IN /\ tree' = SubSeq(tree, 1, Len(tree) - 1)
                /\ WellFormed(tree')
                /\ containerType' = SubSeq(containerType, 1, Len(tree) - 1)
                /\ headingLevel' = SubSeq(headingLevel, 1, Len(tree) - 1)
                /\ entryStack' = SubSeq(entryStack, 1, Len(tree) - 1)
                /\ containedNodes' =
                      [n \in DOMAIN containedNodes \cap kept |-> containedNodes[n]]
    /\ UNCHANGED <<pc, phase, containerStack, edges, calls, firstResult>>
    /\ UNCHANGED <<cursorVars, inspectVars, clientVars, workerVars, serviceVars>>

NextEdit ==
    \/ ParseBuildNode
    \/ StartPass
    \/ VisitIgnored
    \/ VisitThematicBreak
    \/ BreakPop
    \/ BreakDone
    \/ VisitHeading
    \/ HeadingPop
    \/ HeadingStop
    \/ VisitListItem
    \/ ListPop
    \/ ListDone
    \/ VisitBlockquote
    \/ Attach
    \/ VisitOther
    \/ AttachContainedNodes
    \/ BuildAgain
    \/ EditTree

SpecEdit == Init /\ [][NextEdit]_vars


----------------------------------------------------------------------------
(* findNodeAtCursor: the most specific node under an editor cursor.

   The tree is scanned in pre-order, which is the order of the node
   indices.  A node's position is a span from start to end (1-based line
   and column) or is missing. *)

MaxCursorNodes == 3
MaxLine == 2
MaxColumn == 2

LineWeight == 1000

Points == [line : 1..MaxLine, column : 1..MaxColumn]

\* a is not after b in the text
NotAfter(a, b) == a.line < b.line \/ (a.line = b.line /\ a.column <= b.column)

NoPosition == [has |-> FALSE, start |-> [line |-> 0, column |-> 0],
                              end |-> [line |-> 0, column |-> 0]]

Spans == {[has |-> TRUE, start |-> s, end |-> e] : <<s, e>> \in
              {se \in Points \X Points : NotAfter(se[1], se[2])}}

\* The span of a child lies within the span of its parent.
Within(inner, outer) ==
    outer.has => (inner.has => /\ NotAfter(outer.start, inner.start)
                               /\ NotAfter(inner.end, outer.end))

\* number arithmetic with Infinity
Infinity == [inf |-> TRUE, val |-> 0]

Finite(v) == [inf |-> FALSE, val |-> v]

\* Variant: an equal area replaces the node found before (<= for <).
LessOrEqual(a, b) == ~a.inf /\ (b.inf \/ a.val <= b.val)

\* area < smallestArea
Less(a, b) == ~a.inf /\ (b.inf \/ a.val < b.val)

\* The span of the root of a parsed document: the whole text.
DocumentSpan == [has |-> TRUE, start |-> [line |-> 1, column |-> 1],
                              end |-> [line |-> MaxLine, column |-> MaxColumn]]

\* The root of a positioned tree: parsed, or built without a position.
LocateRoot ==
    /\ phase = "parse"
    /\ Len(tree) = 1
    /\ position = << >>
    /\ \E p \in {DocumentSpan, NoPosition} : position' = << p >>
    /\ UNCHANGED <<cursorPosition, matchingNode, nodeAtCursor, context, nodeArea>>
    /\ UNCHANGED resolverVars
    /\ UNCHANGED <<buildVars, inspectVars, clientVars, workerVars, serviceVars>>

\* The next node of a positioned tree, in document order.
ParseCursorNode ==
    /\ phase = "parse"
    /\ Len(position) = Len(tree)
    /\ Len(tree) < MaxCursorNodes
    /\ \E p \in AncestorsOrSelf(tree, Len(tree)) :
          \E k \in AllowedChildren(tree[p].type) \cap (TextNodes \cup {[type |-> "paragraph", depth |-> 0]}) :
              \E span \in Spans \cup {NoPosition} :
                  /\ Within(span, position[p])
                  /\ tree' = Append(tree, [type |-> k.type, depth |-> k.depth, parent |-> p])
                  /\ position' = Append(position, span)
    /\ UNCHANGED <<pc, phase, containerStack, edges, containerType, headingLevel, entryStack>>
    /\ UNCHANGED <<cursorPosition, matchingNode, nodeAtCursor, context, nodeArea>>
    /\ UNCHANGED <<buildVars, inspectVars, clientVars, workerVars, serviceVars>>

\* Variant: the cursor is taken as an mdast point without adding one.
ToMdastPointZeroBased(cp) == [line |-> cp.line, column |-> cp.ch]

\* cursor = { line: cursorPosition.line + 1, column: cursorPosition.ch + 1 }
ToMdastPoint(cp) == [line |-> cp.line + 1, column |-> cp.ch + 1]

\* function isNodeAtPosition(node, cursor)
isNodeAtPosition(pos, cursor) ==
    IF ~pos.has THEN FALSE
    ELSE IF cursor.line < pos.start.line \/ cursor.line > pos.end.line THEN FALSE
    ELSE IF cursor.line = pos.start.line /\ cursor.column < pos.start.column THEN FALSE
    ELSE IF cursor.line = pos.end.line /\ cursor.column > pos.end.column THEN FALSE
    ELSE TRUE

\* function calculateNodeArea(node)
calculateNodeArea(pos) ==
    IF ~pos.has THEN Infinity
    ELSE IF pos.end.line > pos.start.line
         THEN Finite((pos.end.line - pos.start.line) * LineWeight
                     + (pos.end.column - pos.start.column))
         ELSE Finite(pos.end.column - pos.start.column)

\* visitNode over the nodes from n on; best is <<matchingNode, smallestArea>>.
RECURSIVE visitNode(_, _, _, _)
visitNode(pos, cursor, n, best) ==
    IF n > Len(pos) THEN best
    ELSE LET area == calculateNodeArea(pos[n])
             taken == IF isNodeAtPosition(pos[n], cursor) /\ Less(area, best[2])
                      THEN <<n, area>>
                      ELSE best
         IN visitNode(pos, cursor, n + 1, taken)

\* function findNodeAtCursor(ast, cursorPosition)
findNodeAtCursor(pos, cp) == visitNode(pos, ToMdastPoint(cp), Root, <<0, Infinity>>)[1]

\* The editor asks for the node under a cursor, which may lie outside the
\* text.
FindNodeAtCursor ==
    /\ phase = "parse"
    /\ Len(position) = Len(tree)
    /\ \E l \in 0..MaxLine, c \in 0..MaxColumn :
          /\ cursorPosition' = [line |-> l, ch |-> c]
          /\ matchingNode' = findNodeAtCursor(position, cursorPosition')
    /\ phase' = "found"
    /\ UNCHANGED <<tree, pc, containerStack, edges, containerType, headingLevel, entryStack>>
    /\ UNCHANGED <<position, nodeAtCursor, context, nodeArea>>
    /\ UNCHANGED <<buildVars, inspectVars, clientVars, workerVars, serviceVars>>

\* markdownContent.split('\n'): the text of a document of MaxLine lines,
\* each line standing for its own content.
markdownContent == [i \in 1..MaxLine |-> i]

\* Array.prototype.slice(from, to) for 0 <= from: the elements with
\* 0-based index from .. to - 1 that exist.
Slice(lines, from, to) ==
    LET last == IF to < Len(lines) THEN to ELSE Len(lines)
    IN IF from >= last THEN << >> ELSE SubSeq(lines, from + 1, last)

\* Variant: the slice starts at start.line.
contentFromNodeOffByOne(pos, lines) ==
    IF ~pos.has THEN << >>
    ELSE Slice(lines, pos.start.line, pos.end.line)

\* function contentFromNode(node, markdownContent); '' is no line at all.
contentFromNode(pos, lines) ==
    IF ~pos.has THEN << >>
    ELSE Slice(lines, pos.start.line - 1, pos.end.line)

\* The ancestors visitParents reports for a node: root first, parent last.
RECURSIVE cursorAncestors(_, _)
cursorAncestors(t, n) ==
    IF n = Root THEN << >>
    ELSE Append(cursorAncestors(t, t[n].parent), t[n].parent)

\* function buildContextFromNode(tree, nodeAtCursor, markdownContent)
buildContextFromNode(t, pos, node, lines) ==
    IF node = 0 \/ ~pos[node].has THEN << >>
    ELSE LET ancestors == cursorAncestors(t, node)
         IN IF Len(ancestors) = 0 THEN lines
            ELSE IF Len(ancestors) = 1 THEN contentFromNode(pos[node], lines)
            ELSE contentFromNode(pos[ancestors[2]], lines)

\* The context of a node of the tree, or of no node.
BuildContextFromNode ==
    /\ phase = "parse"
    /\ Len(position) = Len(tree)
    /\ \E node \in 0..Len(tree) :
          /\ nodeAtCursor' = node
          /\ context' = buildContextFromNode(tree, position, node, markdownContent)
    /\ phase' = "context"
    /\ UNCHANGED <<tree, pc, containerStack, edges, containerType, headingLevel, entryStack>>
    /\ UNCHANGED <<position, cursorPosition, matchingNode, nodeArea>>
    /\ UNCHANGED <<buildVars, inspectVars, clientVars, workerVars, serviceVars>>

NextCursor == LocateRoot \/ ParseCursorNode \/ FindNodeAtCursor \/ BuildContextFromNode

SpecCursor == Init /\ [][NextCursor]_vars

\* The largest number of nodes whose areas are compared.
MaxAreaNodes == 3

\* Columns of short lines and of lines longer than the weight of a line.
WideColumns == {1, MaxColumn, LineWeight + MaxColumn}

WidePoints == [line : 1..MaxLine, column : WideColumns]

WideSpans == {[has |-> TRUE, start |-> s, end |-> e] : <<s, e>> \in
                  {se \in WidePoints \X WidePoints : NotAfter(se[1], se[2])}}

\* The root of a document with long lines.
WideDocumentSpan ==
    [has |-> TRUE, start |-> [line |-> 1, column |-> 1],
                   end |-> [line |-> MaxLine, column |-> LineWeight + MaxColumn]]

LocateWideRoot ==
    /\ phase = "parse"
    /\ Len(tree) = 1
    /\ position = << >>
    /\ position' = << WideDocumentSpan >>
    /\ UNCHANGED <<cursorPosition, matchingNode, nodeAtCursor, context, nodeArea>>
    /\ UNCHANGED resolverVars
    /\ UNCHANGED <<buildVars, inspectVars, clientVars, workerVars, serviceVars>>

\* The next node of a document with long lines, in document order.
ParseWideNode ==
    /\ phase = "parse"
    /\ Len(position) = Len(tree)
    /\ Len(tree) < MaxAreaNodes
    /\ \E p \in AncestorsOrSelf(tree, Len(tree)) :
          \E k \in AllowedChildren(tree[p].type) \cap (TextNodes \cup {[type |-> "paragraph", depth |-> 0]}) :
              \E span \in WideSpans :
                  /\ Within(span, position[p])
                  /\ tree' = Append(tree, [type |-> k.type, depth |-> k.depth, parent |-> p])
                  /\ position' = Append(position, span)
    /\ UNCHANGED <<pc, phase, containerStack, edges, containerType, headingLevel, entryStack>>
    /\ UNCHANGED <<cursorPosition, matchingNode, nodeAtCursor, context, nodeArea>>
    /\ UNCHANGED <<buildVars, inspectVars, clientVars, workerVars, serviceVars>>

\* calculateNodeArea is applied to every node of the tree, as a scan of
\* findNodeAtCursor does when the cursor lies in all of them.
MeasureNodes ==
    /\ phase = "parse"
    /\ Len(position) = Len(tree)
    /\ nodeArea' = [n \in DOMAIN position |-> calculateNodeArea(position[n])]
    /\ phase' = "measured"
    /\ UNCHANGED <<tree, pc, containerStack, edges, containerType, headingLevel, entryStack>>
    /\ UNCHANGED <<position, cursorPosition, matchingNode, nodeAtCursor, context>>
    /\ UNCHANGED <<buildVars, inspectVars, clientVars, workerVars, serviceVars>>

NextArea == LocateWideRoot \/ ParseWideNode \/ MeasureNodes

SpecArea == Init /\ [][NextArea]_vars


----------------------------------------------------------------------------
(* inspectContainmentTree: the rendering of a containedNodes structure.

   visit is recursive; callStack holds one frame per active call: the node,
   the members its forEach runs over, and the index of the next member.
   A line of the output is kept as what it shows: a node, a node with the
   circular-reference marker, or the summary of a container's non-container
   members. *)

MaxInspectNodes == 3
MaxInspectEdges == 4
MaxMembers == 7

GroupThreshold == 5

\* The kinds of non-container members the summary counts.
LeafTypes == {"paragraph", "code"}

NoCount == [k \in LeafTypes |-> 0]

NodeLine(node) == [kind |-> "node", node |-> node, total |-> 0, typeCount |-> NoCount]

CircularLine(node) ==
    [kind |-> "circular", node |-> node, total |-> 0, typeCount |-> NoCount]

\* node.containedNodes.filter(keep), keeping the order
RECURSIVE Filter(_, _, _)
Filter(t, members, containers) ==
    IF members = << >> THEN << >>
    ELSE LET rest == Filter(t, Tail(members), containers)
         IN IF isContainerNode(t[Head(members)]) = containers
            THEN << Head(members) >> \o rest
            ELSE rest

\* typeCount.get(type) after the forEach over directNonContainers
RECURSIVE CountOfType(_, _, _)
CountOfType(t, members, type) ==
    IF members = << >> THEN 0
    ELSE (IF t[Head(members)].type = type THEN 1 ELSE 0)
         + CountOfType(t, Tail(members), type)

\* Variant: the members are grouped from the threshold on.
GroupsAtThreshold(n) == n >= GroupThreshold

\* if (directNonContainers.length > 5)
Groups(n) == n > GroupThreshold

HasMembers(cn, node) == node \in DOMAIN cn /\ Len(cn[node]) > 0

\* The summary line visit writes for a node, if it writes one.
SummaryLines(t, cn, node) ==
    IF HasMembers(cn, node) /\ Groups(Len(Filter(t, cn[node], FALSE)))
    THEN LET directNonContainers == Filter(t, cn[node], FALSE)
         IN << [kind |-> "summary", node |-> node,
                total |-> Len(directNonContainers),
                typeCount |-> [k \in LeafTypes |-> CountOfType(t, directNonContainers, k)]] >>
    ELSE << >>

\* The members visit calls itself for.
MembersToVisit(t, cn, node) ==
    IF ~HasMembers(cn, node) THEN << >>
    ELSE IF Groups(Len(Filter(t, cn[node], FALSE)))
         THEN Filter(t, cn[node], TRUE)
         ELSE cn[node]

\* Variant: the current path is not consulted.
OnPathNever(path, node) == FALSE

\* if (visitedInThisPath.has(node))
OnPath(path, node) == node \in path

\* Variant: the set of all visited nodes is not consulted.
SeenBeforeNever(all, node) == FALSE

\* if (allVisitedNodes.has(node))
SeenBefore(all, node) == node \in all

\* A hand-made structure gets one more node.
GraftNode ==
    /\ phase = "parse"
    /\ Len(tree) < MaxInspectNodes
    /\ \E k \in {[type |-> "heading", depth |-> 1], [type |-> "paragraph", depth |-> 0]} :
          tree' = Append(tree, [type |-> k.type, depth |-> k.depth, parent |-> Root])
    /\ UNCHANGED <<pc, phase, containerStack, edges, containerType, headingLevel, entryStack>>
    /\ UNCHANGED others

\* The number of members in all containedNodes fields.
RECURSIVE TotalMembers(_, _)
TotalMembers(cn, ns) ==
    IF ns = {} THEN 0
    ELSE LET n == CHOOSE x \in ns : TRUE
         IN Len(cn[n]) + TotalMembers(cn, ns \ {n})

\* A hand-made structure gets one more member in some container's
\* containedNodes: any node, the container itself or one of its own
\* containers included.
GraftMember ==
    /\ phase = "parse"
    /\ TotalMembers(containedNodes, DOMAIN containedNodes) < MaxInspectEdges
    /\ \E c \in 1..Len(tree), m \in 1..Len(tree) :
          /\ isContainerNode(tree[c])
          /\ containedNodes' =
                [n \in DOMAIN containedNodes \cup {c} |->
                    IF n = c
                    THEN Append(IF c \in DOMAIN containedNodes
                                THEN containedNodes[c] ELSE << >>, m)
                    ELSE containedNodes[n]]
    /\ UNCHANGED <<calls, firstResult>>
    /\ UNCHANGED resolverVars
    /\ UNCHANGED <<cursorVars, inspectVars, clientVars, workerVars, serviceVars>>

\* The root's containedNodes gets one more entry: a new heading, a new
\* block that is no container, or, once in a structure, a node that is
\* already part of it (the root itself or the node added last).
WidenRoot ==
    LET members == IF Root \in DOMAIN containedNodes THEN containedNodes[Root] ELSE << >>
    IN /\ phase = "parse"
       /\ Len(members) < MaxMembers
       /\ \/ \E k \in {[type |-> "heading", depth |-> 1]}
                       \cup {[type |-> leaf, depth |-> 0] : leaf \in LeafTypes} :
                /\ tree' = Append(tree, [type |-> k.type, depth |-> k.depth, parent |-> Root])
                /\ containedNodes' = [n \in {Root} |-> Append(members, Len(tree) + 1)]
          \/ \E m \in {Root, Len(tree)} :
                /\ Len(members) = Len(tree) - 1
                /\ tree' = tree
                /\ containedNodes' = [n \in {Root} |-> Append(members, m)]
    /\ UNCHANGED <<calls, firstResult>>
    /\ UNCHANGED <<pc, phase, containerStack, edges, containerType, headingLevel, entryStack>>
    /\ UNCHANGED <<cursorVars, inspectVars, clientVars, workerVars, serviceVars>>

\* The body of visit(node) for a node met for the first time, called with
\* the stack of callers below: the node joins both sets, its line is
\* written, then the summary line if its non-container members are grouped.
VisitBody(node, below) ==
    /\ visitedInThisPath' = visitedInThisPath \cup {node}
    /\ allVisitedNodes' = allVisitedNodes \cup {node}
    /\ output' = output \o << NodeLine(node) >> \o SummaryLines(tree, containedNodes, node)
    /\ callStack' = Append(below, [node |-> node,
                                   members |-> MembersToVisit(tree, containedNodes, node),
                                   next |-> 1])

\* the forEach of the innermost call moves on to its next member
Advance(stack) == [stack EXCEPT ![Len(stack)].next = @ + 1]

NextMember == Top(callStack).members[Top(callStack).next]

Calling ==
    /\ phase = "inspect"
    /\ callStack # << >>
    /\ Top(callStack).next <= Len(Top(callStack).members)

\* inspectContainmentTree(tree): visit(tree)
InspectStart ==
    /\ phase = "parse"
    /\ phase' = "inspect"
    /\ VisitBody(Root, << >>)
    /\ UNCHANGED <<tree, pc, containerStack, edges, containerType, headingLevel, entryStack>>
    /\ UNCHANGED <<buildVars, cursorVars, clientVars, workerVars, serviceVars>>

\* visit(child) for a node of the current path: one marked line, no descent.
VisitCircular ==
    /\ Calling
    /\ OnPath(visitedInThisPath, NextMember)
    /\ output' = Append(output, CircularLine(NextMember))
    /\ callStack' = Advance(callStack)
    /\ UNCHANGED <<visitedInThisPath, allVisitedNodes>>
    /\ UNCHANGED resolverVars
    /\ UNCHANGED <<buildVars, cursorVars, clientVars, workerVars, serviceVars>>

\* visit(child) for a node already shown in another branch: nothing.
VisitDuplicate ==
    /\ Calling
    /\ ~OnPath(visitedInThisPath, NextMember)
    /\ SeenBefore(allVisitedNodes, NextMember)
    /\ callStack' = Advance(callStack)
    /\ UNCHANGED <<visitedInThisPath, allVisitedNodes, output>>
    /\ UNCHANGED resolverVars
    /\ UNCHANGED <<buildVars, cursorVars, clientVars, workerVars, serviceVars>>

\* visit(child) for a node met for the first time.
VisitFresh ==
    /\ Calling
    /\ ~OnPath(visitedInThisPath, NextMember)
    /\ ~SeenBefore(allVisitedNodes, NextMember)
    /\ VisitBody(NextMember, Advance(callStack))
    /\ UNCHANGED resolverVars
    /\ UNCHANGED <<buildVars, cursorVars, clientVars, workerVars, serviceVars>>

\* The forEach of the innermost call is over: the node leaves the current
\* path and visit returns; the outermost return ends the rendering.
VisitReturn ==
    /\ phase = "inspect"
    /\ callStack # << >>
    /\ Top(callStack).next > Len(Top(callStack).members)
    /\ visitedInThisPath' = visitedInThisPath \ {Top(callStack).node}
    /\ callStack' = Pop(callStack)
    /\ phase' = IF Len(callStack) = 1 THEN "inspected" ELSE phase
    /\ UNCHANGED <<allVisitedNodes, output>>
    /\ UNCHANGED <<tree, pc, containerStack, edges, containerType, headingLevel, entryStack>>
    /\ UNCHANGED <<buildVars, cursorVars, clientVars, workerVars, serviceVars>>

Render == InspectStart \/ VisitCircular \/ VisitDuplicate \/ VisitFresh \/ VisitReturn

NextInspect == GraftNode \/ GraftMember \/ Render

SpecInspect == Init /\ [][NextInspect]_vars

\* The rendering is one synchronous call: once started it runs on.
FairSpecInspect == SpecInspect /\ WF_vars(NextInspect)

NextInspectWide == WidenRoot \/ Render

SpecInspectWide == Init /\ [][NextInspectWide]_vars


----------------------------------------------------------------------------
(* KuzuClient: requests to the database worker and their promises.

   The id crypto.randomUUID() returns is modelled as the number of the
   request, so that no two requests share one.  The worker is the
   environment: it may answer any id at any time, an id without a request
   (id 0) included, and more than once.  A timer runs from sendMessage until
   it fires or is cleared. *)

MaxRequests == 3

RequestTypes == {"init", "query", "persist"}

Errors == {"boom"}

\* A promise nobody has settled, and what resolve and reject make of it.
\* Settling a settled promise changes nothing.
\* settles counts the calls of resolve and reject.
Pending == [state |-> "pending", template |-> "", subject |-> "", detail |-> "",
            response |-> "none", data |-> 0, settles |-> 0]

Resolve(p, response) ==
    IF p.state = "pending"
    THEN [p EXCEPT !.state = "resolved", !.response = response.type,
                   !.data = response.data, !.settles = @ + 1]
    ELSE [p EXCEPT !.settles = @ + 1]

Reject(p, template, subject, detail) ==
    IF p.state = "pending"
    THEN [p EXCEPT !.state = "rejected", !.template = template,
                   !.subject = subject, !.detail = detail, !.settles = @ + 1]
    ELSE [p EXCEPT !.settles = @ + 1]

\* The responses the worker may send for an id.  The data of a query
\* success is what the worker computed for that request, here the id.
ResponsesFor(id) ==
    LET types == IF id \in DOMAIN posted THEN {posted[id].type} ELSE {"query"}
    IN UNION {
         {[id |-> id, type |-> t \o "-success", requestType |-> t, error |-> "",
           data |-> IF t = "query" THEN id ELSE 0]}
         \cup {[id |-> id, type |-> "error", requestType |-> t, error |-> e,
                 data |-> 0] : e \in Errors}
         : t \in types}

\* Variant: close() goes on only after a persist that succeeded.
AwaitOverOnSuccess(p) == p.state = "resolved"

\* await this.persist() inside try/catch: over once the promise is settled,
\* whichever way.
AwaitOver(p) == p.state # "pending"

\* The continuation of close() is a queued microtask: it runs before the
\* next message, timer or error event is handled.
CloseResumes == closeResult = "pending" /\ AwaitOver(promise[closing])

\* The reaction of an API call to the promise of its i-th request is
\* queued once that promise is settled.
ReactionQueued(c, i) ==
    /\ i \notin apiCalls[c].reacted
    /\ promise[apiCalls[c].requests[i]].state # "pending"

\* Queued microtasks run before the next message, timer or error event.
MicrotaskQueued ==
    \/ CloseResumes
    \/ \E c \in DOMAIN apiCalls : \E i \in DOMAIN apiCalls[c].requests :
          ReactionQueued(c, i)

\* sendMessage(message, timeout): timer armed, handler registered, request
\* posted.
SendMessage ==
    /\ Len(posted) < MaxRequests
    /\ \E type \in RequestTypes :
          LET id == Len(posted) + 1 IN
          /\ timers' = timers \cup {id}
          /\ messageHandlers' = messageHandlers \cup {id}
          /\ posted' = Append(posted, [id |-> id, type |-> type])
          /\ promise' = Append(promise, Pending)
          /\ lastEvent' = [handler |-> "sendMessage", id |-> id, type |-> type]
    /\ UNCHANGED <<closeVars, apiCalls>>
    /\ UNCHANGED resolverVars
    /\ UNCHANGED <<buildVars, cursorVars, inspectVars, workerVars, serviceVars>>

\* Variant: the handler stays in the map.
DeletedNothing(handlers, id) == handlers

\* this.messageHandlers.delete(id)
Deleted(handlers, id) == handlers \ {id}

\* Variant: an error response resolves the promise like any other.
SettledIgnoringError(p, response) == Resolve(p, response)

\* if (response.type === 'error') handler.reject(...) else handler.resolve(response)
Settled(p, response) ==
    IF response.type = "error"
    THEN Reject(p, "<requestType> failed: <error>", response.requestType, response.error)
    ELSE Resolve(p, response)

\* worker.onmessage
OnMessage ==
    /\ ~terminated
    /\ ~MicrotaskQueued
    /\ \E id \in 0..Len(posted) : \E response \in ResponsesFor(id) :
          /\ lastEvent' = [handler |-> "onmessage", id |-> id, type |-> response.type]
          /\ IF response.id \in messageHandlers
             THEN /\ timers' = timers \ {response.id}
                  /\ promise' = [promise EXCEPT ![response.id] = Settled(@, response)]
                  /\ messageHandlers' = Deleted(messageHandlers, response.id)
             ELSE UNCHANGED <<timers, promise, messageHandlers>>
    /\ UNCHANGED <<posted, closeVars, apiCalls>>
    /\ UNCHANGED resolverVars
    /\ UNCHANGED <<buildVars, cursorVars, inspectVars, workerVars, serviceVars>>

\* Variant: the timeout callback finds no handler.
HasHandlerNever(handlers, id) == FALSE

\* if (this.messageHandlers.has(id)) in the timeout callback
HasHandler(handlers, id) == id \in handlers

\* The callback of setTimeout runs for a timer that was not cleared.
TimeoutFires ==
    /\ ~MicrotaskQueued
    /\ \E id \in timers :
          /\ timers' = timers \ {id}
          /\ lastEvent' = [handler |-> "timeout", id |-> id, type |-> posted[id].type]
          /\ IF HasHandler(messageHandlers, id)
             THEN /\ messageHandlers' = Deleted(messageHandlers, id)
                  /\ promise' = [promise EXCEPT ![id] =
                        Reject(@, "Request timed out after <timeout>ms: <type>",
                               posted[id].type, "DEFAULT_TIMEOUT")]
             ELSE UNCHANGED <<messageHandlers, promise>>
    /\ UNCHANGED <<posted, closeVars, apiCalls>>
    /\ UNCHANGED resolverVars
    /\ UNCHANGED <<buildVars, cursorVars, inspectVars, workerVars, serviceVars>>

\* Variant: the timeouts of the rejected requests stay armed.
ClearedNone(armed, handlers) == armed

\* clearTimeout(handler.timeout) for every entry of messageHandlers
Cleared(armed, handlers) == armed \ handlers

\* worker.onerror: every pending request is rejected.
OnError ==
    /\ ~terminated
    /\ ~MicrotaskQueued
    /\ \E message \in Errors :
          /\ promise' = [id \in DOMAIN promise |->
                IF id \in messageHandlers
                THEN Reject(promise[id], "Worker error: <message>", "", message)
                ELSE promise[id]]
          /\ lastEvent' = [handler |-> "onerror", id |-> 0, type |-> message]
    /\ timers' = Cleared(timers, messageHandlers)
    /\ messageHandlers' = {}
    /\ UNCHANGED <<posted, closeVars, apiCalls>>
    /\ UNCHANGED resolverVars
    /\ UNCHANGED <<buildVars, cursorVars, inspectVars, workerVars, serviceVars>>

\* close(), up to its await: this.persist() sends a persist request.
Close ==
    /\ closeResult = "none"
    /\ Len(posted) < MaxRequests
    /\ LET id == Len(posted) + 1 IN
          /\ timers' = timers \cup {id}
          /\ messageHandlers' = messageHandlers \cup {id}
          /\ posted' = Append(posted, [id |-> id, type |-> "persist"])
          /\ promise' = Append(promise, Pending)
          /\ lastEvent' = [handler |-> "close", id |-> id, type |-> "persist"]
          /\ closing' = id
    /\ closeResult' = "pending"
    /\ UNCHANGED <<terminated, apiCalls>>
    /\ UNCHANGED resolverVars
    /\ UNCHANGED <<buildVars, cursorVars, inspectVars, workerVars, serviceVars>>

\* close(), after its await: the finally block rejects what is pending and
\* terminates the worker; then the promise of close() resolves.
CloseFinally ==
    /\ CloseResumes
    /\ promise' = [id \in DOMAIN promise |->
          IF id \in messageHandlers
          THEN Reject(promise[id], "Worker terminated", "", "")
          ELSE promise[id]]
    /\ timers' = Cleared(timers, messageHandlers)
    /\ messageHandlers' = {}
    /\ terminated' = TRUE
    /\ closeResult' = "resolved"
    /\ lastEvent' = [handler |-> "finally", id |-> closing, type |-> "persist"]
    /\ UNCHANGED <<posted, closing, apiCalls>>
    /\ UNCHANGED resolverVars
    /\ UNCHANGED <<buildVars, cursorVars, inspectVars, workerVars, serviceVars>>

NextClient ==
    SendMessage \/ OnMessage \/ TimeoutFires \/ OnError \/ Close \/ CloseFinally

SpecClient == Init /\ [][NextClient]_vars

\* An armed timer fires unless it is cleared, and the continuation of
\* close() runs once the promise it awaits is settled.
FairSpecClient == SpecClient /\ WF_vars(TimeoutFires) /\ WF_vars(CloseFinally)


----------------------------------------------------------------------------
(* KuzuClient.transaction and KuzuClient.queries.

   Both go through query(cypher), which sends one 'query' request and
   returns the data of its response.  The text of a request is kept as the
   sequence of its parts: a statement is one part, and the text of a
   transaction is BEGIN TRANSACTION, the statements joined in order, COMMIT.
   An API call with one request adopts the outcome of query(); queries()
   with several statements waits with Promise.all. *)

MaxApiCalls == 1
MaxStatements == 3

Statements == {"MATCH", "CREATE"}

RECURSIVE SeqsUpTo(_, _)
SeqsUpTo(S, n) ==
    IF n = 0 THEN {<< >>}
    ELSE LET shorter == SeqsUpTo(S, n - 1)
         IN shorter \cup {Append(q, x) : q \in shorter, x \in S}

StatementLists == SeqsUpTo(Statements, MaxStatements)

\* Variant: the text ends without COMMIT.
transactionCypherUncommitted(statements) == << "BEGIN TRANSACTION" >> \o statements

\* `BEGIN TRANSACTION; ${statements.join(';\n')}; COMMIT;`
transactionCypher(statements) ==
    << "BEGIN TRANSACTION" >> \o statements \o << "COMMIT" >>

\* The call as it is when the method returns its promise.
NewCall(method, statements, requests, all) ==
    [method |-> method, statements |-> statements, requests |-> requests,
     all |-> all, reacted |-> {}, values |-> [i \in DOMAIN requests |-> 0],
     remaining |-> Len(requests),
     state |-> IF requests = << >> THEN "resolved" ELSE "pending",
     single |-> 0, list |-> << >>, reason |-> ""]

\* this.query(cypher) for each text of a sequence, one after the other:
\* each sendMessage arms a timer, registers a handler and posts a request.
QueryEach(method, statements, cyphers, all) ==
    LET ids == [i \in DOMAIN cyphers |-> Len(posted) + i]
        idSet == {ids[i] : i \in DOMAIN ids}
    IN /\ Len(apiCalls) < MaxApiCalls
       /\ Len(posted) + Len(cyphers) <= MaxRequests
       /\ timers' = timers \cup idSet
       /\ messageHandlers' = messageHandlers \cup idSet
       /\ posted' = posted \o [i \in DOMAIN cyphers |->
                        [id |-> ids[i], type |-> "query", cypher |-> cyphers[i]]]
       /\ promise' = promise \o [i \in DOMAIN cyphers |-> Pending]
       /\ apiCalls' = Append(apiCalls, NewCall(method, statements, ids, all))
       /\ lastEvent' = [handler |-> method, id |-> Len(posted) + Len(cyphers),
                        type |-> "query"]

\* async transaction(statements)
Transaction ==
    /\ \E statements \in StatementLists :
          IF Len(statements) = 0
          THEN QueryEach("transaction", statements, << >>, FALSE)
          ELSE IF Len(statements) = 1
          THEN QueryEach("transaction", statements, << << statements[1] >> >>, FALSE)
          ELSE QueryEach("transaction", statements,
                         << transactionCypher(statements) >>, FALSE)
    /\ UNCHANGED closeVars
    /\ UNCHANGED resolverVars
    /\ UNCHANGED <<buildVars, cursorVars, inspectVars, workerVars, serviceVars>>

\* async queries(cypher)
Queries ==
    /\ \E cypher \in StatementLists :
          IF Len(cypher) = 0
          THEN QueryEach("queries", cypher, << >>, FALSE)
          ELSE IF Len(cypher) = 1
          THEN QueryEach("queries", cypher, << << cypher[1] >> >>, FALSE)
          ELSE QueryEach("queries", cypher,
                         [i \in DOMAIN cypher |-> << cypher[i] >>], TRUE)
    /\ UNCHANGED closeVars
    /\ UNCHANGED resolverVars
    /\ UNCHANGED <<buildVars, cursorVars, inspectVars, workerVars, serviceVars>>

\* Variant: Promise.all keeps the values in the order they arrive.
StoredOnArrival(values, i, v) ==
    LET free == {j \in DOMAIN values : values[j] = 0}
        first == CHOOSE j \in free : \A k \in free : j <= k
    IN [values EXCEPT ![first] = v]

\* Promise.all keeps the value of its i-th promise at index i.
Stored(values, i, v) == [values EXCEPT ![i] = v]

\* What the reaction to its i-th request, whose promise is p, makes of a
\* call.  A settled call stays as it is.
AfterReaction(call, i, p) ==
    LET seen == [call EXCEPT !.reacted = @ \cup {i}] IN
    IF p.state = "rejected"
    THEN IF call.state = "pending"
         THEN [seen EXCEPT !.state = "rejected", !.reason = p.template]
         ELSE seen
    ELSE IF ~call.all
    THEN [seen EXCEPT !.state = "resolved", !.single = p.data]
    ELSE LET values == Stored(call.values, i, p.data)
             kept == [seen EXCEPT !.values = values, !.remaining = @ - 1]
         IN IF kept.remaining = 0 /\ call.state = "pending"
            THEN [kept EXCEPT !.state = "resolved", !.list = values]
            ELSE kept

\* A queued reaction runs.
React ==
    /\ \E c \in DOMAIN apiCalls : \E i \in DOMAIN apiCalls[c].requests :
          /\ ReactionQueued(c, i)
          /\ apiCalls' = [apiCalls EXCEPT ![c] =
                AfterReaction(@, i, promise[apiCalls[c].requests[i]])]
    /\ UNCHANGED <<posted, messageHandlers, timers, promise, lastEvent, closeVars>>
    /\ UNCHANGED resolverVars
    /\ UNCHANGED <<buildVars, cursorVars, inspectVars, workerVars, serviceVars>>

NextTransaction == Transaction \/ React \/ OnMessage \/ TimeoutFires \/ OnError

SpecTransaction == Init /\ [][NextTransaction]_vars

NextQueries == Queries \/ React \/ OnMessage \/ TimeoutFires \/ OnError

SpecQueries == Init /\ [][NextQueries]_vars


----------------------------------------------------------------------------
(* The worker (kuzu.worker.ts): requests arrive at ctx.onmessage one by     *)
(* one, each is routed by handleMessage and answered with ctx.postMessage. *)
(* handleQuery is synchronous and the await of handlePersist is on a       *)
(* function without an await of its own, so both answer before the next    *)
(* message is delivered; handleInit waits for kuzu.init() and other        *)
(* messages may be handled meanwhile.                                      *)

MaxWorkerRequests == 3

\* { id: request.id, type: '<type>-success' }
SuccessResponse(request) ==
    [id |-> request.id,
     type |-> CASE request.type = "init" -> "init-success"
                [] request.type = "query" -> "query-success"
                [] request.type = "persist" -> "persist-success",
     requestType |-> "none"]

\* { id: request.id, type: 'error', error, requestType }
ErrorResponse(request, requestType) ==
    [id |-> request.id, type |-> "error", requestType |-> requestType]

\* Variant: a query is run whether the database is initialized or not.
handleQueryUngated(request, initialized, ok) ==
    IF ok THEN SuccessResponse(request) ELSE ErrorResponse(request, "query")

\* function handleQuery(request); ok: conn.query and the extraction of its
\* result do not throw
handleQuery(request, initialized, ok) ==
    IF ~initialized THEN ErrorResponse(request, "query")
    ELSE IF ok THEN SuccessResponse(request)
    ELSE ErrorResponse(request, "query")

\* async function handlePersist(request); ok: serializeDirectory does not throw
handlePersist(request, initialized, ok) ==
    IF ~initialized THEN ErrorResponse(request, "persist")
    ELSE IF ok THEN SuccessResponse(request)
    ELSE ErrorResponse(request, "persist")

\* The request of the next message event.
NextRequest(type) == [id |-> Len(received) + 1, type |-> type]

\* ctx.onmessage with a query request
WorkerQuery ==
    /\ Len(received) < MaxWorkerRequests
    /\ received' = Append(received, NextRequest("query"))
    /\ \E ok \in BOOLEAN :
          responses' = Append(responses, handleQuery(NextRequest("query"), isInitialized, ok))
    /\ UNCHANGED <<isInitialized, suspended>>
    /\ UNCHANGED resolverVars
    /\ UNCHANGED <<buildVars, cursorVars, inspectVars, clientVars, serviceVars>>

\* ctx.onmessage with a persist request
WorkerPersist ==
    /\ Len(received) < MaxWorkerRequests
    /\ received' = Append(received, NextRequest("persist"))
    /\ \E ok \in BOOLEAN :
          responses' = Append(responses, handlePersist(NextRequest("persist"), isInitialized, ok))
    /\ UNCHANGED <<isInitialized, suspended>>
    /\ UNCHANGED resolverVars
    /\ UNCHANGED <<buildVars, cursorVars, inspectVars, clientVars, serviceVars>>

\* ctx.onmessage with an init request: handleInit runs up to await kuzu.init()
WorkerInit ==
    /\ Len(received) < MaxWorkerRequests
    /\ received' = Append(received, NextRequest("init"))
    /\ suspended' = suspended \cup {Len(received) + 1}
    /\ UNCHANGED <<isInitialized, responses>>
    /\ UNCHANGED resolverVars
    /\ UNCHANGED <<buildVars, cursorVars, inspectVars, clientVars, serviceVars>>

\* kuzu.init() has settled: handleInit goes on to the end.  ok: neither
\* kuzu.init() nor the restoring of the data nor the opening of the database
\* and the connection throws.
WorkerInitDone ==
    /\ \E id \in suspended, ok \in BOOLEAN :
          /\ suspended' = suspended \ {id}
          /\ isInitialized' = (IF ok THEN TRUE ELSE isInitialized)
          /\ responses' = Append(responses,
                                 IF ok THEN SuccessResponse(received[id])
                                 ELSE ErrorResponse(received[id], "init"))
    /\ UNCHANGED received
    /\ UNCHANGED resolverVars
    /\ UNCHANGED <<buildVars, cursorVars, inspectVars, clientVars, serviceVars>>

NextWorker == WorkerQuery \/ WorkerPersist \/ WorkerInit \/ WorkerInitDone

SpecWorker == Init /\ [][NextWorker]_vars


----------------------------------------------------------------------------
(* AstGraphService.processAst.  A call runs from its start to its first    *)
(* await without interruption and resumes when the awaited promise has     *)
(* settled; the calls of one service instance share isReady,               *)
(* nodeIdCounter and nodeIDs.  A node is written <<call, i>>: the i-th     *)
(* node, in the order of visit, of the tree handed to that call.           *)

MaxServiceCalls == 2
MaxAstNodes == 3

\* The trees handed to processAst, as the kinds of their nodes in the order
\* of visit.
Asts ==
    { [i \in 1..n |-> IF i = 1 THEN "root" ELSE "paragraph"] : n \in 1..MaxAstNodes }

\* this.reset() followed by the visit of createNodesFromAst: nodeIDs is
\* cleared and every node of the tree gets `${node.type}-${this.getNodeId()}`.
createNodes(call, ast) ==
    [node \in { <<call, i>> : i \in 1..Len(ast) } |->
        [type |-> ast[node[2]], number |-> node[2] - 1]]

\* The part of processAst from this.reset() to the await of the
\* transaction that creates the nodes.
ResetAndCreate(call) ==
    /\ nodeIDs' = createNodes(call, serviceCalls[call].ast)
    /\ nodeIdCounter' = Len(serviceCalls[call].ast)

\* processAst(ast) is called: with the schema not ready it waits for
\* initSchema, else it resets, visits the tree and waits for the transaction.
ProcessAst ==
    /\ Len(serviceCalls) < MaxServiceCalls
    /\ \E ast \in Asts :
          LET call == Len(serviceCalls) + 1
          IN IF ~isReady
             THEN /\ serviceCalls' = Append(serviceCalls,
                        [ast |-> ast, at |-> "initSchema", result |-> 0])
                  /\ UNCHANGED <<nodeIDs, nodeIdCounter>>
             ELSE /\ serviceCalls' = Append(serviceCalls,
                        [ast |-> ast, at |-> "transaction", result |-> 0])
                  /\ nodeIDs' = createNodes(call, ast)
                  /\ nodeIdCounter' = Len(ast)
    /\ UNCHANGED isReady
    /\ UNCHANGED resolverVars
    /\ UNCHANGED <<buildVars, cursorVars, inspectVars, clientVars, workerVars>>

\* The transaction of initSchema has resolved: isReady is set, and the call
\* that waited goes on to reset, visit its tree and wait for its transaction.
SchemaReady ==
    /\ \E call \in DOMAIN serviceCalls :
          /\ serviceCalls[call].at = "initSchema"
          /\ isReady' = TRUE
          /\ ResetAndCreate(call)
          /\ serviceCalls' = [serviceCalls EXCEPT ![call].at = "transaction"]
    /\ UNCHANGED resolverVars
    /\ UNCHANGED <<buildVars, cursorVars, inspectVars, clientVars, workerVars>>

\* The transaction of createNodesFromAst has resolved:
\* return this.nodeIDs.size
NodesCreated ==
    /\ \E call \in DOMAIN serviceCalls :
          /\ serviceCalls[call].at = "transaction"
          /\ serviceCalls' = [serviceCalls EXCEPT
                                 ![call].at = "returned",
                                 ![call].result = Cardinality(DOMAIN nodeIDs)]
    /\ UNCHANGED <<isReady, nodeIdCounter, nodeIDs>>
    /\ UNCHANGED resolverVars
    /\ UNCHANGED <<buildVars, cursorVars, inspectVars, clientVars, workerVars>>

\* The transaction a call waits for is rejected (by the worker, by its
\* timeout or by a worker error): the call rejects where it stands.
TransactionRejected ==
    /\ \E call \in DOMAIN serviceCalls :
          /\ serviceCalls[call].at \in {"initSchema", "transaction"}
          /\ serviceCalls' = [serviceCalls EXCEPT ![call].at = "rejected"]
    /\ UNCHANGED <<isReady, nodeIdCounter, nodeIDs>>
    /\ UNCHANGED resolverVars
    /\ UNCHANGED <<buildVars, cursorVars, inspectVars, clientVars, workerVars>>

NextService == ProcessAst \/ SchemaReady \/ NodesCreated \/ TransactionRejected

SpecService == Init /\ [][NextService]_vars


----------------------------------------------------------------------------
(* inspectContainmentTree on the tree buildContainmentTree returned.  The   *)
(* tree handed to buildContainmentTree is fresh, or one of its containers  *)
(* already carries a containedNodes field from elsewhere.                  *)

MaxRenderNodes == 4

\* The document handed to buildContainmentTree and then rendered.
ParseRenderNode ==
    /\ phase = "parse"
    /\ containedNodes = << >>
    /\ Len(tree) < MaxRenderNodes
    /\ \E p \in AncestorsOrSelf(tree, Len(tree)) :
          \E k \in AllowedChildren(tree[p].type) :
              tree' = Append(tree, [type |-> k.type, depth |-> k.depth, parent |-> p])
    /\ UNCHANGED <<pc, phase, containerStack, edges, containerType, headingLevel, entryStack>>
    /\ UNCHANGED others

\* One container of the tree is given a containedNodes field with one node
\* of the tree before the tree is built.
PresetMembers ==
    /\ phase = "parse"
    /\ containedNodes = << >>
    /\ \E c \in 1..Len(tree), m \in 1..Len(tree) :
          /\ isContainerNode(tree[c])
          /\ containedNodes' = [n \in {c} |-> <<m>>]
    /\ UNCHANGED <<calls, firstResult>>
    /\ UNCHANGED resolverVars
    /\ UNCHANGED <<cursorVars, inspectVars, clientVars, workerVars, serviceVars>>

\* inspectContainmentTree(buildContainmentTree(ast)): visit(tree)
InspectBuilt ==
    /\ phase = "built"
    /\ phase' = "inspect"
    /\ VisitBody(Root, << >>)
    /\ UNCHANGED <<tree, pc, containerStack, edges, containerType, headingLevel, entryStack>>
    /\ UNCHANGED <<buildVars, cursorVars, clientVars, workerVars, serviceVars>>

NextRender ==
    \/ ParseRenderNode
    \/ PresetMembers
    \/ StartPass
    \/ VisitIgnored
    \/ VisitThematicBreak
    \/ BreakPop
    \/ BreakDone
    \/ VisitHeading
    \/ HeadingPop
    \/ HeadingStop
    \/ VisitListItem
    \/ ListPop
    \/ ListDone
    \/ VisitBlockquote
    \/ Attach
    \/ VisitOther
    \/ AttachContainedNodes
    \/ InspectBuilt
    \/ VisitCircular
    \/ VisitDuplicate
    \/ VisitFresh
    \/ VisitReturn

SpecRender == Init /\ [][NextRender]_vars

----------------------------------------------------------------------------
(* Vocabulary of the properties                                            *)

Nodes == 1..Len(tree)

\* The kinds that receive no edge because they are skipped.
TransparentKinds == {"root", "list", "text", "strong", "emphasis"}

\* A node that is neither of a transparent kind nor a thematic break.
Emitting(n) ==
    /\ tree[n].type \notin TransparentKinds
    /\ tree[n].type # "thematicBreak"

\* The positions in the edge stream at which n is the member.
EdgesOf(n) == { i \in DOMAIN edges : edges[i].member = n }

HasEdge(n) == EdgesOf(n) # {}

\* The container of n in the edge stream (n has an edge).
ContainerOf(n) == edges[CHOOSE i \in EdgesOf(n) : TRUE].container

IsHeading(n) == tree[n].type = "heading"

IsBreak(n) == tree[n].type = "thematicBreak"

\* m lies strictly between a and b in document order.
Between(a, m, b) == a < m /\ m < b

\* n is a proper structural descendant of q in the syntax tree.
Descendant(n, q) == n # q /\ q \in AncestorsOrSelf(tree, n)

\* n is q, or is contained by q through a chain of emitted edges.
RECURSIVE ContainedBy(_, _)
ContainedBy(n, q) ==
    \/ n = q
    \/ HasEdge(n) /\ ContainedBy(ContainerOf(n), q)

MaxOf(S) == CHOOSE x \in S : \A y \in S : y <= x

----------------------------------------------------------------------------
(* C1  Single containment: when a pass has finished, every node that is    *)
(* neither of a transparent kind (root, list, text, strong, emphasis) nor  *)
(* a thematic break is the member of exactly one emitted edge, and every   *)
(* transparent node and thematic break is the member of none.              *)
SingleContainment ==
    Done =>
        \A n \in Nodes :
            Cardinality(EdgesOf(n)) = IF Emitting(n) THEN 1 ELSE 0

\* A finished pass over a tree holding a list, a thematic break and at
\* least two nodes that received an edge.
SingleContainmentWitness ==
    /\ Done
    /\ Len(edges) >= 2
    /\ \E n \in Nodes : tree[n].type = "list"
    /\ \E n \in Nodes : IsBreak(n)

(* C2  Order preservation: when a pass has finished, the members of the    *)
(* emitted edges, in emission order, are exactly the nodes of the tree in  *)
(* pre-order that are neither transparent nor thematic breaks.             *)
OrderPreservation ==
    Done =>
        [i \in DOMAIN edges |-> edges[i].member]
            = SelectSeq([n \in Nodes |-> n], LAMBDA n : Emitting(n))

\* A finished pass in which a container, one of its structural children
\* and a later node outside it all received edges.
OrderPreservationWitness ==
    /\ Done
    /\ \E a, b, c \in Nodes :
          /\ a < b /\ b < c
          /\ tree[b].parent = a /\ tree[c].parent # a /\ tree[c].parent # b
          /\ Emitting(a) /\ Emitting(b) /\ Emitting(c)
          /\ HasEdge(a) /\ HasEdge(b) /\ HasEdge(c)

(* C3  Root stability: in every state of a pass, including the states      *)
(* between two pops of an unwinding loop, the container stack is not       *)
(* empty, its bottom element is the root, and the root occurs in it once.  *)
RootStability ==
    Running =>
    /\ Len(containerStack) >= 1
    /\ containerStack[1] = Root
    /\ Cardinality({ i \in DOMAIN containerStack : containerStack[i] = Root }) = 1

\* An unwinding loop has popped at least two scopes and reached the root.
RootStabilityWitness ==
    /\ phase \in {"breakUnwind", "headingTrim", "listUnwind"}
    /\ Len(entryStack[pc]) >= 3
    /\ Len(containerStack) = 1

(* C4 as stated  Heading nesting law: for headings h1 before h2 with no     *)
(* heading of depth <= depth(h1) between them, the container of h2 is h1   *)
(* if and only if depth(h2) > depth(h1), whatever else lies between them.  *)
HeadingNestingLaw ==
    Done =>
        \A h1, h2 \in Nodes :
            ( /\ IsHeading(h1) /\ IsHeading(h2) /\ h1 < h2
              /\ ~\E m \in Nodes : /\ Between(h1, m, h2) /\ IsHeading(m)
                                   /\ tree[m].depth <= tree[h1].depth )
            => ( ContainerOf(h2) = h1 <=> tree[h2].depth > tree[h1].depth )

\* Nothing between h1 and h2 takes h1 off the stack or comes to lie between
\* h1 and h2 on it: no heading of depth <= depth(h1) or < depth(h2), no
\* thematic break, and no list item that was emitted with the root as its
\* container.
UndisturbedBetween(h1, h2) ==
    /\ IsHeading(h1) /\ IsHeading(h2) /\ h1 < h2
    /\ ~\E m \in Nodes :
          /\ Between(h1, m, h2)
          /\ \/ IsHeading(m) /\ tree[m].depth <= tree[h1].depth
             \/ IsHeading(m) /\ tree[m].depth < tree[h2].depth
             \/ IsBreak(m)
             \/ tree[m].type = "listItem" /\ ContainerOf(m) = Root

(* C4 amended  For headings h1 before h2 with, between them, no heading of *)
(* depth <= depth(h1), no heading of depth < depth(h2), no thematic break  *)
(* and no list item emitted with the root as its container, the container  *)
(* of h2 is h1 if and only if depth(h2) > depth(h1).                       *)
HeadingNestingLawAmended ==
    Done =>
        \A h1, h2 \in Nodes :
            UndisturbedBetween(h1, h2)
            => ( ContainerOf(h2) = h1 <=> tree[h2].depth > tree[h1].depth )

\* A finished pass in which a deeper heading is contained by an earlier
\* heading across an intervening blockquote or list item.
HeadingNestingLawWitness ==
    /\ Done
    /\ \E h1, h2 \in Nodes :
          /\ UndisturbedBetween(h1, h2)
          /\ tree[h2].depth > tree[h1].depth
          /\ ContainerOf(h2) = h1
          /\ \E m \in Nodes : /\ Between(h1, m, h2)
                              /\ tree[m].type \in {"blockquote", "listItem"}

\* The container a heading of depth d should get from the stack s it meets:
\* the topmost heading of s of depth < d, the root if there is none.
ShallowerHeadings(s, d) ==
    { k \in DOMAIN s : IsHeading(s[k]) /\ tree[s[k]].depth < d }

ExpectedHeadingSlot(s, d) ==
    IF ShallowerHeadings(s, d) = {} THEN 1 ELSE MaxOf(ShallowerHeadings(s, d))

(* C5  Heading container: the container emitted for a heading of depth d   *)
(* is the topmost heading of depth < d on the stack the heading met, or    *)
(* the root if there is none; everything above that container has been     *)
(* popped when the heading is attached; so the container is never a list   *)
(* item, a blockquote or a heading of depth >= d.                          *)
HeadingContainer ==
    /\ \A i \in DOMAIN edges :
          LET h == edges[i].member
              c == edges[i].container
              s == entryStack[h]
          IN IsHeading(h) =>
                /\ c = s[ExpectedHeadingSlot(s, tree[h].depth)]
                /\ tree[c].type \notin {"listItem", "blockquote"}
                /\ IsHeading(c) => tree[c].depth < tree[h].depth
    /\ (phase = "attach" /\ IsHeading(pc)) =>
          containerStack =
              SubSeq(entryStack[pc], 1, ExpectedHeadingSlot(entryStack[pc], tree[pc].depth))

\* A heading attached to a shallower heading after popping a list item or
\* blockquote and a heading of its own depth or deeper.
HeadingContainerWitness ==
    \E i \in DOMAIN edges :
        LET h == edges[i].member
            s == entryStack[h]
        IN /\ IsHeading(h)
           /\ IsHeading(edges[i].container)
           /\ \E k \in DOMAIN s : tree[s[k]].type \in {"listItem", "blockquote"}
           /\ \E k \in DOMAIN s : IsHeading(s[k]) /\ tree[s[k]].depth >= tree[h].depth

(* C6 as stated  List items contain their nested items: every list item    *)
(* whose enclosing list is an immediate child of a list item p is emitted  *)
(* with container p.                                                       *)
NestedItemsContained ==
    Done =>
        \A c \in Nodes :
            ( /\ tree[c].type = "listItem"
              /\ tree[tree[c].parent].type = "list"
              /\ tree[tree[c].parent].parent # 0
              /\ tree[tree[tree[c].parent].parent].type = "listItem" )
            => ContainerOf(c) = tree[tree[c].parent].parent

(* C7 as stated  Sibling list items: two items of the same list are both   *)
(* emitted with the container that was on top of the stack when the list   *)
(* began, and the later one is not contained by the earlier one.           *)
SiblingItemsShareContainer ==
    Done =>
        \A l, a, b \in Nodes :
            ( /\ tree[l].type = "list"
              /\ tree[a].parent = l /\ tree[b].parent = l /\ a < b
              /\ tree[a].type = "listItem" /\ tree[b].type = "listItem" )
            => /\ ContainerOf(a) = Top(entryStack[l])
               /\ ContainerOf(b) = Top(entryStack[l])
               /\ ContainerOf(b) # a

(* C8 as stated  A blockquote owns its body: every structural descendant   *)
(* of a blockquote that receives an edge is emitted with a container that  *)
(* is the blockquote or is transitively contained by it.                   *)
BlockquoteOwnsBody ==
    Done =>
        \A q, n \in Nodes :
            ( tree[q].type = "blockquote" /\ Descendant(n, q) /\ HasEdge(n) )
            => ContainedBy(ContainerOf(n), q)

(* C9  Thematic break isolation: no emitted edge has a thematic break as   *)
(* its member or as its container.                                         *)
ThematicBreakIsolation ==
    \A i \in DOMAIN edges :
        /\ ~IsBreak(edges[i].member)
        /\ ~IsBreak(edges[i].container)

\* A finished pass over a tree with a thematic break that has edges
\* emitted before it and after it.
ThematicBreakIsolationWitness ==
    /\ Done
    /\ \E t \in Nodes :
          /\ IsBreak(t)
          /\ \E i, j \in DOMAIN edges : edges[i].member < t /\ t < edges[j].member

(* C10  Thematic break reset: right after a thematic break is processed    *)
(* the stack is exactly <<Root>>, and the next edge emitted after the      *)
(* break has the root as its container.                                    *)
ThematicBreakReset ==
    /\ \A t \in Nodes :
          (Running /\ phase = "visit" /\ pc = t + 1 /\ IsBreak(t))
          => containerStack = << Root >>
    /\ \A i \in DOMAIN edges :
          \A t \in Nodes :
              ( /\ IsBreak(t) /\ t < edges[i].member
                /\ ~\E j \in DOMAIN edges : Between(t, edges[j].member, edges[i].member) )
              => edges[i].container = Root

\* A thematic break met with at least two scopes open, followed by an edge.
ThematicBreakResetWitness ==
    \E t \in Nodes :
        /\ Running
        /\ IsBreak(t)
        /\ Len(entryStack[t]) >= 3
        /\ \E i \in DOMAIN edges : t < edges[i].member

\* A heading without a depth.
IsDepthless(n) == IsHeading(n) /\ tree[n].depth = 0

(* C11 as stated  Fail fast: when the resolver meets a heading without a   *)
(* depth the pass fails at that node, so no edge is emitted for that       *)
(* heading or for any node after it.                                       *)
FailFastOnMissingDepth ==
    \A i \in DOMAIN edges :
        ~\E h \in Nodes : IsDepthless(h) /\ h <= edges[i].member


(* C12  Idempotent tree building: when buildContainmentTree has been called
   more than once on the same unmodified tree, every container carries the
   ordered member sequence the first call gave it, and no other node
   carries one. *)
IdempotentBuild ==
    (phase = "built" /\ calls >= 2) => containedNodes = firstResult

IdempotentBuildWitness ==
    /\ phase = "built"
    /\ calls = 2
    /\ \E h \in Nodes : IsHeading(h) /\ h \in DOMAIN containedNodes
    /\ \E c \in DOMAIN containedNodes : Len(containedNodes[c]) >= 2
    /\ containedNodes = firstResult

(* C13  getContainedNodes always returns a sequence, never null: once the
   tree is built it is the target's direct members in emission order, which
   is the empty sequence for a container without members, for a node that
   is no container and for a node that is not part of the tree. *)
ContainedNodesTotal ==
    /\ \A target \in 0..Len(tree) :
          ~getContainedNodes(containedNodes, target).isNull
    /\ phase = "built" =>
          \A target \in 0..Len(tree) :
              getContainedNodes(containedNodes, target).nodes
                  = NodeMapGet(edges, target)

ContainedNodesTotalWitness ==
    /\ phase = "built"
    /\ \E target \in Nodes :
          Len(getContainedNodes(containedNodes, target).nodes) >= 2
    /\ \E target \in Nodes :
          /\ isContainerNode(tree[target])
          /\ getContainedNodes(containedNodes, target).nodes = << >>
    /\ \E target \in Nodes :
          /\ ~isContainerNode(tree[target])
          /\ getContainedNodes(containedNodes, target).nodes = << >>
    /\ getContainedNodes(containedNodes, 0).nodes = << >>


\* The nodes whose span holds the mdast point of the cursor, ends included.
Covering ==
    LET at == [line |-> cursorPosition.line + 1, column |-> cursorPosition.ch + 1]
    IN {n \in DOMAIN position :
            /\ position[n].has
            /\ NotAfter(position[n].start, at)
            /\ NotAfter(at, position[n].end)}

\* The area of a node with a span.
AreaOf(n) == calculateNodeArea(position[n]).val

(* C14  findNodeAtCursor looks at the point (line + 1, ch + 1): it returns a
   node whose span covers the point and whose area is minimal among the
   covering nodes, and it returns undefined exactly when no node with a
   span covers the point. *)
MostSpecificAtCursor ==
    phase = "found" =>
        /\ matchingNode = 0 <=> Covering = {}
        /\ matchingNode # 0 =>
              /\ matchingNode \in Covering
              /\ \A m \in Covering : AreaOf(matchingNode) <= AreaOf(m)

MostSpecificAtCursorWitness ==
    /\ phase = "found"
    /\ matchingNode > Root
    /\ Cardinality(Covering) >= 2
    /\ \E m \in Covering : AreaOf(matchingNode) < AreaOf(m)
    /\ \E n \in DOMAIN position : ~position[n].has


\* The source lines first..last, both included.
LinesBetween(first, last) == [i \in 1..(last - first + 1) |-> first + i - 1]

\* The ancestor-or-self of n that is a direct child of the root.
TopLevelBlock(n) ==
    CHOOSE a \in AncestorsOrSelf(tree, n) : a # Root /\ tree[a].parent = Root

(* C15  buildContextFromNode returns whole source lines: the entire document
   for the root; the lines start.line..end.line of the node itself when its
   parent is the root; otherwise those of its ancestor whose parent is the
   root.  Only the parse tree's parent links decide. *)
ContextIsTopLevelBlock ==
    (phase = "context" /\ nodeAtCursor # 0 /\ position[nodeAtCursor].has) =>
        IF nodeAtCursor = Root THEN context = markdownContent
        ELSE LET block == TopLevelBlock(nodeAtCursor)
             IN position[block].has =>
                    context = LinesBetween(position[block].start.line,
                                           position[block].end.line)

ContextIsTopLevelBlockWitness ==
    /\ phase = "context"
    /\ nodeAtCursor # 0
    /\ position[nodeAtCursor].has
    /\ tree[nodeAtCursor].parent \notin {0, Root}
    /\ position[TopLevelBlock(nodeAtCursor)].has
    /\ position[TopLevelBlock(nodeAtCursor)].start.line > 1
    /\ position[TopLevelBlock(nodeAtCursor)] # position[nodeAtCursor]
    /\ context # << >>


\* The nodes of the active calls of visit: the current path.
CurrentPath == {callStack[i].node : i \in DOMAIN callStack}

\* The lines of the output that show node n without the marker.
UnmarkedLines(n) ==
    {i \in DOMAIN output : output[i].kind = "node" /\ output[i].node = n}

MarkedLines(n) ==
    {i \in DOMAIN output : output[i].kind = "circular" /\ output[i].node = n}

\* The nodes reachable from the root through containedNodes.
RECURSIVE ReachableFrom(_)
ReachableFrom(seen) ==
    LET more == {m \in Nodes : \E c \in seen \cap DOMAIN containedNodes :
                     \E i \in DOMAIN containedNodes[c] : containedNodes[c][i] = m}
    IN IF more \subseteq seen THEN seen ELSE ReachableFrom(seen \cup more)

(* C16  inspectContainmentTree terminates on every containedNodes
   structure, cyclic ones included; a node met again while it is on the
   current path gets one more line, with the circular-reference marker, and
   is not descended into. *)
CyclesEndMarked ==
    /\ <>(phase = "inspected")
    /\ [][(Calling /\ NextMember \in CurrentPath) =>
              /\ output' = Append(output, CircularLine(NextMember))
              /\ Len(callStack') = Len(callStack)
              /\ CurrentPath' = CurrentPath]_vars

CyclesEndMarkedWitness ==
    /\ phase = "inspected"
    /\ \E c \in DOMAIN containedNodes : \E d \in DOMAIN containedNodes :
          /\ c # d
          /\ \E i \in DOMAIN containedNodes[c] : containedNodes[c][i] = d
          /\ \E i \in DOMAIN containedNodes[d] : containedNodes[d][i] = c
          /\ MarkedLines(c) # {}
    /\ \E n \in Nodes : MarkedLines(n) # {} /\ n \in DOMAIN containedNodes
                        /\ \E i \in DOMAIN containedNodes[n] : containedNodes[n][i] = n

(* C17  A node reachable through two branches is rendered at its first
   encounter only: every node has at most one line without the circular
   marker, and when the rendering is over every reachable node has exactly
   one. *)
RenderedOnce ==
    /\ \A n \in Nodes : Cardinality(UnmarkedLines(n)) <= 1
    /\ phase = "inspected" =>
          \A n \in ReachableFrom({Root}) : Cardinality(UnmarkedLines(n)) = 1

RenderedOnceWitness ==
    /\ phase = "inspected"
    /\ \E n \in Nodes \ {Root} :
          /\ \E c \in DOMAIN containedNodes : \E d \in DOMAIN containedNodes :
                /\ c # d
                /\ \E i \in DOMAIN containedNodes[c] : containedNodes[c][i] = n
                /\ \E i \in DOMAIN containedNodes[d] : containedNodes[d][i] = n
          /\ MarkedLines(n) = {}
          /\ Cardinality(UnmarkedLines(n)) = 1


\* The direct members of the root, those that are containers and those
\* that are not, each in member order.
RootMembers == IF Root \in DOMAIN containedNodes THEN containedNodes[Root] ELSE << >>

ContainerMembers == SelectSeq(RootMembers, LAMBDA m : tree[m].type \notin LeafTypes)

LeafMembers == SelectSeq(RootMembers, LAMBDA m : tree[m].type \in LeafTypes)

\* No node is a member twice, and the root is no member of itself.
MembersDistinct ==
    \A i \in DOMAIN RootMembers :
        /\ RootMembers[i] # Root
        /\ \A j \in DOMAIN RootMembers : RootMembers[i] = RootMembers[j] => i = j

SummaryLineNumbers == {i \in DOMAIN output : output[i].kind = "summary"}

\* The nodes that are no containers.
LeafKindNodes == {n \in Nodes : tree[n].type \in LeafTypes}

\* The lines that render the nodes of a sequence one by one.
LinesFor(members) == [i \in DOMAIN members |-> NodeLine(members[i])]

RECURSIVE SumOfCounts(_, _)
SumOfCounts(count, kinds) ==
    IF kinds = {} THEN 0
    ELSE LET k == CHOOSE x \in kinds : TRUE
         IN count[k] + SumOfCounts(count, kinds \ {k})

(* C18  Render threshold: a container with more than five non-container
   direct members shows them as exactly one summary line, whose per-kind
   counts sum to their number, followed by its container members rendered
   in order; with five or fewer, every direct member is rendered on its own
   line in member order. *)
RenderThreshold ==
    phase = "inspected" =>
        IF Len(LeafMembers) > GroupThreshold
        THEN /\ output[1] = NodeLine(Root)
             /\ SummaryLineNumbers = {2}
             /\ output[2].total = Len(LeafMembers)
             /\ SumOfCounts(output[2].typeCount, LeafTypes) = Len(LeafMembers)
             /\ \A k \in LeafTypes :
                   output[2].typeCount[k] =
                       Cardinality({i \in DOMAIN LeafMembers : tree[LeafMembers[i]].type = k})
             /\ \A i \in DOMAIN output : output[i].node \in LeafKindNodes => i = 2
             /\ MembersDistinct =>
                   SubSeq(output, 3, Len(output)) = LinesFor(ContainerMembers)
        ELSE /\ SummaryLineNumbers = {}
             /\ MembersDistinct =>
                   output = << NodeLine(Root) >> \o LinesFor(RootMembers)

RenderThresholdWitness ==
    /\ phase = "inspected"
    /\ Len(LeafMembers) = GroupThreshold + 1
    /\ Len(ContainerMembers) >= 1
    /\ MembersDistinct
    /\ \A k \in LeafTypes : \E i \in DOMAIN LeafMembers : tree[LeafMembers[i]].type = k
    /\ Len(output) = 2 + Len(ContainerMembers)


\* What a step leaves as it was for the requests other than id.
OthersUntouched(id) ==
    \A j \in DOMAIN promise \ {id} :
        /\ promise'[j] = promise[j]
        /\ (j \in messageHandlers') = (j \in messageHandlers)
        /\ (j \in timers') = (j \in timers)

(* C19  Request/response correlation: a sendMessage posts one request with
   an id no earlier request has and registers one pending handler for it; a
   response that carries the id of a pending request resolves that request's
   promise with the response, or, if it is an error response, rejects it
   with '<requestType> failed: <error>'; the handler is removed and no
   other request is touched. *)
Correlation ==
    [][/\ Len(posted') # Len(posted) =>
            LET id == posted'[Len(posted')].id IN
            /\ Len(posted') = Len(posted) + 1
            /\ SubSeq(posted', 1, Len(posted)) = posted
            /\ \A i \in DOMAIN posted : posted[i].id # id
            /\ id \notin messageHandlers
            /\ messageHandlers' = messageHandlers \cup {id}
            /\ promise'[id].state = "pending"
            /\ OthersUntouched(id)
       /\ (lastEvent'.handler = "onmessage" /\ lastEvent'.id \in messageHandlers) =>
            LET id == lastEvent'.id IN
            /\ IF lastEvent'.type = "error"
               THEN /\ promise'[id].state = "rejected"
                    /\ promise'[id].template = "<requestType> failed: <error>"
                    /\ promise'[id].subject = posted[id].type
                    /\ promise'[id].detail \in Errors
               ELSE /\ promise'[id].state = "resolved"
                    /\ promise'[id].response = lastEvent'.type
            /\ messageHandlers' = messageHandlers \ {id}
            /\ OthersUntouched(id)
      ]_vars

CorrelationWitness ==
    \E a \in DOMAIN promise : \E b \in DOMAIN promise : \E c \in DOMAIN promise :
        /\ promise[a].state = "resolved"
        /\ promise[a].response = posted[a].type \o "-success"
        /\ promise[b].state = "rejected"
        /\ promise[b].template = "<requestType> failed: <error>"
        /\ promise[c].state = "pending"
        /\ c \in messageHandlers
        /\ c < b
        /\ lastEvent.handler = "onmessage"

(* C20  Timeout: when the timeout of a request fires, the request is still
   pending, it is rejected with the timed-out error and its handler is
   removed; a response for an id without a pending handler, a late one
   included, changes nothing in the client and settles no promise. *)
TimeoutThenSilence ==
    [][/\ lastEvent'.handler = "timeout" =>
            LET id == lastEvent'.id IN
            /\ id \in messageHandlers
            /\ promise[id].state = "pending"
            /\ promise'[id].state = "rejected"
            /\ promise'[id].template = "Request timed out after <timeout>ms: <type>"
            /\ promise'[id].subject = posted[id].type
            /\ id \notin messageHandlers'
            /\ OthersUntouched(id)
       /\ (lastEvent'.handler = "onmessage" /\ lastEvent'.id \notin messageHandlers) =>
            UNCHANGED <<posted, messageHandlers, timers, promise>>
      ]_vars

TimeoutThenSilenceWitness ==
    /\ lastEvent.handler = "onmessage"
    /\ lastEvent.id \in DOMAIN promise
    /\ promise[lastEvent.id].state = "rejected"
    /\ promise[lastEvent.id].template = "Request timed out after <timeout>ms: <type>"
    /\ lastEvent.type # "error"
    /\ messageHandlers # {}


(* C21  Worker error: when the worker raises an error event, every request
   pending at that moment is rejected with 'Worker error: <message>', its
   timeout is cancelled, the pending-handler map is empty afterwards, and
   the requests settled before keep their outcome. *)
WorkerErrorRejectsAll ==
    [][lastEvent'.handler = "onerror" =>
            /\ \A id \in messageHandlers :
                  /\ promise[id].state = "pending"
                  /\ promise'[id].state = "rejected"
                  /\ promise'[id].template = "Worker error: <message>"
                  /\ promise'[id].detail = lastEvent'.type
                  /\ id \notin timers'
            /\ messageHandlers' = {}
            /\ \A id \in DOMAIN promise \ messageHandlers : promise'[id] = promise[id]
      ]_vars

WorkerErrorRejectsAllWitness ==
    /\ lastEvent.handler = "onerror"
    /\ messageHandlers = {}
    /\ timers = {}
    /\ Cardinality({id \in DOMAIN promise :
                       promise[id].template = "Worker error: <message>"}) >= 2
    /\ \E id \in DOMAIN promise : promise[id].state = "resolved"


(* C22  close() first sends a persist request; once that request is
   settled, by a success, an error or a timeout, the next thing the client
   does is to reject every request still pending with 'Worker terminated',
   to empty the pending-handler map and to terminate the worker, and
   close() resolves; the worker is not terminated before. *)
CloseTerminates ==
    [][/\ (closeResult = "none" /\ closeResult' # "none") =>
            /\ closeResult' = "pending"
            /\ posted' = Append(posted, [id |-> closing', type |-> "persist"])
            /\ closing' \in messageHandlers'
            /\ ~terminated'
       /\ (closeResult = "pending" /\ promise[closing].state = "pending") =>
            (~terminated' /\ closeResult' = "pending")
       /\ (closeResult = "pending" /\ promise[closing].state # "pending") =>
            \/ /\ closeResult' = "resolved"
               /\ terminated'
               /\ messageHandlers' = {}
               /\ \A id \in messageHandlers :
                     /\ promise'[id].state = "rejected"
                     /\ promise'[id].template = "Worker terminated"
                     /\ id \notin timers'
               /\ \A id \in DOMAIN promise \ messageHandlers : promise'[id] = promise[id]
            \/ /\ lastEvent'.handler = "sendMessage"
               /\ closeResult' = "pending"
       /\ closeResult' # "rejected"
      ]_vars

CloseTerminatesWitness ==
    /\ closeResult = "resolved"
    /\ terminated
    /\ messageHandlers = {}
    /\ promise[closing].state = "rejected"
    /\ promise[closing].template = "Request timed out after <timeout>ms: <type>"
    /\ \E id \in DOMAIN promise : promise[id].template = "Worker terminated"


\* The requests a step has posted.
NewlyPosted == SubSeq(posted', Len(posted) + 1, Len(posted'))

\* The call a step has started.
Started == apiCalls'[Len(apiCalls')]

(* C23  transaction(statements): for an empty list no request is sent and
   the call returns an empty list; for one statement exactly one query
   request is sent, carrying that statement unchanged; for two or more
   exactly one query request is sent whose text is BEGIN TRANSACTION, all
   the statements in their given order, then COMMIT. *)
TransactionRequests ==
    [][Len(apiCalls') # Len(apiCalls) =>
          LET statements == Started.statements IN
          /\ Started.method = "transaction"
          /\ SubSeq(posted', 1, Len(posted)) = posted
          /\ IF Len(statements) = 0
             THEN /\ NewlyPosted = << >>
                  /\ Started.state = "resolved"
                  /\ Started.list = << >>
             ELSE /\ Len(NewlyPosted) = 1
                  /\ NewlyPosted[1].type = "query"
                  /\ NewlyPosted[1].id = Started.requests[1]
                  /\ IF Len(statements) = 1
                     THEN NewlyPosted[1].cypher = << statements[1] >>
                     ELSE LET text == NewlyPosted[1].cypher IN
                          /\ Len(text) = Len(statements) + 2
                          /\ text[1] = "BEGIN TRANSACTION"
                          /\ \A i \in DOMAIN statements : text[i + 1] = statements[i]
                          /\ text[Len(text)] = "COMMIT"
      ]_vars

TransactionRequestsWitness ==
    /\ Len(apiCalls) = 1
    /\ apiCalls[1].method = "transaction"
    /\ Len(apiCalls[1].statements) >= 2
    /\ apiCalls[1].statements[1] # apiCalls[1].statements[2]
    /\ Len(posted) = 1
    /\ Len(posted[1].cypher) = Len(apiCalls[1].statements) + 2
    /\ apiCalls[1].state = "resolved"


\* The calls of queries() with two or more statements.
ManyQueries ==
    {c \in DOMAIN apiCalls :
        apiCalls[c].method = "queries" /\ Len(apiCalls[c].statements) >= 2}

(* C24  queries(statements) with n >= 2 statements posts n query requests
   in statement order within the call, before any response is handled; it
   resolves only when all n are resolved, with the list whose i-th element
   is the data the worker returned for the i-th request, in whatever order
   the responses came; it is rejected once one of its requests is
   rejected.  With an empty list it posts nothing and returns an empty
   list. *)
QueriesInOrder ==
    /\ [][Len(apiCalls') # Len(apiCalls) =>
             LET statements == Started.statements IN
             /\ Started.method = "queries"
             /\ SubSeq(posted', 1, Len(posted)) = posted
             /\ Len(statements) = 0 =>
                   /\ NewlyPosted = << >>
                   /\ Started.state = "resolved"
                   /\ Started.list = << >>
             /\ Len(statements) >= 2 =>
                   /\ Len(NewlyPosted) = Len(statements)
                   /\ \A i \in DOMAIN statements :
                         /\ NewlyPosted[i].type = "query"
                         /\ NewlyPosted[i].cypher = << statements[i] >>
                         /\ NewlyPosted[i].id = Started.requests[i]
                         /\ promise'[Started.requests[i]].state = "pending"
                   /\ Started.state = "pending"
         ]_vars
    /\ [](\A c \in ManyQueries :
             LET call == apiCalls[c] IN
             /\ call.state = "resolved" =>
                   /\ Len(call.list) = Len(call.statements)
                   /\ \A i \in DOMAIN call.requests :
                         /\ promise[call.requests[i]].state = "resolved"
                         /\ call.list[i] = promise[call.requests[i]].data
                         /\ call.list[i] = call.requests[i]
             /\ (\A i \in DOMAIN call.requests :
                     promise[call.requests[i]].state = "resolved" /\ i \in call.reacted)
                   => call.state = "resolved"
             /\ (\E i \in call.reacted : promise[call.requests[i]].state = "rejected")
                   => call.state = "rejected"
             /\ call.state = "rejected" =>
                   \E i \in DOMAIN call.requests :
                       promise[call.requests[i]].state = "rejected")

QueriesInOrderWitness ==
    \E c \in ManyQueries :
        /\ apiCalls[c].state = "resolved"
        /\ Len(apiCalls[c].list) = 3
        /\ lastEvent.handler = "onmessage"
        /\ lastEvent.id = apiCalls[c].requests[1]


----------------------------------------------------------------------------
\* The heading at pc has finished its pre-trim and is about to be attached.
HeadingTrimmed == phase = "attach" /\ pc \in Nodes /\ IsHeading(pc)

\* A scope of kind list item or blockquote.
IsItemOrQuote(n) == tree[n].type \in {"listItem", "blockquote"}

\* What is left of a stack after popping, while it has more than one entry,
\* every top that is not a heading of depth less than d.
RECURSIVE TrimmedToShallower(_, _)
TrimmedToShallower(stack, d) ==
    IF /\ Len(stack) > 1
       /\ ~(IsHeading(Top(stack)) /\ tree[Top(stack)].depth < d)
    THEN TrimmedToShallower(Pop(stack), d)
    ELSE stack

(* C25 as stated  Heading pre-trim: when a heading has been pre-trimmed,    *)
(* the stack is what is left of the stack at its entry after popping       *)
(* exactly while there is more than one entry and the top is a heading of  *)
(* equal or greater depth; with a list item or blockquote on top at entry  *)
(* nothing has been popped and that scope is about to become the           *)
(* heading's container.                                                    *)
HeadingPreTrimAsWritten ==
    HeadingTrimmed =>
        LET stack == entryStack[pc]
            Stops(i) == \/ i = 1
                        \/ ~IsHeading(stack[i])
                        \/ tree[stack[i]].depth < tree[pc].depth
            kept == MaxOf({ i \in DOMAIN stack : Stops(i) })
        IN
        /\ containerStack = SubSeq(stack, 1, kept)
        /\ IsItemOrQuote(Top(entryStack[pc])) =>
              /\ containerStack = entryStack[pc]
              /\ Top(containerStack) = Top(entryStack[pc])

(* C25 amended  Heading pre-trim: when a heading has been pre-trimmed, the  *)
(* stack is what is left of the stack at its entry after popping exactly   *)
(* while there is more than one entry and the top is not a heading of      *)
(* strictly smaller depth, so that list items and blockquotes on top are   *)
(* popped too and the heading is about to be attached to a heading of      *)
(* strictly smaller depth or to the root.                                  *)
HeadingPreTrim ==
    HeadingTrimmed =>
        /\ containerStack = TrimmedToShallower(entryStack[pc], tree[pc].depth)
        /\ \/ Top(containerStack) = Root
           \/ /\ IsHeading(Top(containerStack))
              /\ tree[Top(containerStack)].depth < tree[pc].depth

\* A heading met a list item or blockquote on top of a stack that held a
\* heading of smaller depth below it, and has been trimmed down to that
\* heading.
HeadingPreTrimWitness ==
    /\ HeadingTrimmed
    /\ IsItemOrQuote(Top(entryStack[pc]))
    /\ Len(containerStack) < Len(entryStack[pc])
    /\ Top(containerStack) # Root


----------------------------------------------------------------------------
\* Node n is a list item that met, on top of the stack at its entry, a list
\* item that is not its direct structural parent.
MetForeignItem(n) ==
    /\ tree[n].type = "listItem"
    /\ entryStack[n] # << >>
    /\ tree[Top(entryStack[n])].type = "listItem"
    /\ ~isDirectParentListItem(tree, Top(entryStack[n]), n)

\* A heading or blockquote lies in the stack below its top.
ScopeOpenBelow(stack) ==
    \E i \in 2..(Len(stack) - 1) : tree[stack[i]].type \in {"heading", "blockquote"}

(* C26  List-item full reset: a list item that met a list item other than  *)
(* its direct structural parent on top of the stack is attached with the   *)
(* stack unwound to exactly the root, whatever heading or blockquote was   *)
(* open below that top; its container is the root and the stack after it   *)
(* holds the root and the item only.                                       *)
ListItemFullReset ==
    /\ (phase = "attach" /\ pc \in Nodes /\ MetForeignItem(pc))
          => containerStack = <<Root>>
    /\ \A n \in Nodes :
          (HasEdge(n) /\ MetForeignItem(n)) =>
              /\ ContainerOf(n) = Root
              /\ (pc = n + 1 /\ phase = "visit") => containerStack = <<Root, n>>

\* A list item met a foreign list item with a heading or blockquote open
\* below it and has been attached to the root.
ListItemFullResetWitness ==
    /\ phase = "visit"
    /\ pc - 1 \in Nodes
    /\ MetForeignItem(pc - 1)
    /\ ScopeOpenBelow(entryStack[pc - 1])
    /\ HasEdge(pc - 1)
    /\ containerStack = <<Root, pc - 1>>


----------------------------------------------------------------------------
\* Node n is a container that the resolver attaches without a pre-trim: a
\* blockquote, a list item that met a top that is not a list item, or a list
\* item that met its direct parent list item.
AttachedUntrimmed(n) ==
    /\ entryStack[n] # << >>
    /\ \/ tree[n].type = "blockquote"
       \/ /\ tree[n].type = "listItem"
          /\ \/ tree[Top(entryStack[n])].type # "listItem"
             \/ isDirectParentListItem(tree, Top(entryStack[n]), n)

(* C27  No pre-trim for blockquotes and for list items under a top that is *)
(* not a list item or is their direct parent: nothing is popped before     *)
(* such a node is attached, its container is the top of the stack as it    *)
(* was when the node was reached, and the stack afterwards is that stack   *)
(* with the node pushed.                                                   *)
NoPreTrim ==
    /\ (phase = "attach" /\ pc \in Nodes /\ AttachedUntrimmed(pc))
          => containerStack = entryStack[pc]
    /\ \A n \in Nodes :
          (HasEdge(n) /\ AttachedUntrimmed(n)) =>
              /\ ContainerOf(n) = Top(entryStack[n])
              /\ (pc = n + 1 /\ phase = "visit")
                    => containerStack = Append(entryStack[n], n)

\* A nested list item has just been attached to its direct parent, which
\* itself was attached to the blockquote that was on top when it was reached.
NoPreTrimWitness ==
    /\ phase = "visit"
    /\ pc - 1 \in Nodes
    /\ tree[pc - 1].type = "listItem"
    /\ HasEdge(pc - 1)
    /\ LET item == pc - 1
           outer == Top(entryStack[item])
       IN /\ tree[outer].type = "listItem"
          /\ HasEdge(outer)
          /\ isDirectParentListItem(tree, outer, item)
          /\ ContainerOf(item) = outer
          /\ containerStack = Append(entryStack[item], item)
          /\ tree[ContainerOf(outer)].type = "blockquote"
          /\ ContainerOf(ContainerOf(outer)) = Top(entryStack[ContainerOf(outer)])


----------------------------------------------------------------------------
\* The visitor has just returned from node n.
JustVisited(n) == phase = "visit" /\ pc = n + 1

\* Node n has been visited and left the stack as it found it.
ScopeKept(n) == JustVisited(n) => containerStack = entryStack[n]

\* Node n has been visited and received the latest edge, and no other, from
\* the top of the stack as it was on entry.
AttachedToTop(n) ==
    JustVisited(n) =>
        /\ Cardinality(EdgesOf(n)) = 1
        /\ edges # << >>
        /\ edges[Len(edges)] = [container |-> Top(entryStack[n]), member |-> n]

\* The first child of n, once reached, met the stack that n met.
ChildMeetsSameTop(n) ==
    (/\ n + 1 \in Nodes
     /\ tree[n + 1].parent = n
     /\ entryStack[n + 1] # << >>) => entryStack[n + 1] = entryStack[n]

(* C28 as stated  Non-container nodes never change scope: an ignored node  *)
(* (root, list, text, strong, emphasis) receives no edge and leaves the    *)
(* stack unchanged; every other non-container node, of an unknown kind     *)
(* too, receives exactly one edge from the current top and leaves the      *)
(* stack unchanged, so that its children meet the same top.                *)
NonContainersKeepScope ==
    Running =>
        \A n \in Nodes :
            ~isContainerNode(tree[n]) =>
                /\ ScopeKept(n)
                /\ ChildMeetsSameTop(n)
                /\ IF IsIgnored(tree[n])
                   THEN ~HasEdge(n)
                   ELSE AttachedToTop(n)

(* C28 amended  The same for every non-container node but the thematic     *)
(* break: an ignored node receives no edge and leaves the stack unchanged; *)
(* every other non-container node that is not a thematic break, of an      *)
(* unknown kind too, receives exactly one edge from the current top and    *)
(* leaves the stack unchanged, so that its children meet the same top.     *)
NonContainersKeepScopeButBreaks ==
    Running =>
        \A n \in Nodes :
            (~isContainerNode(tree[n]) /\ ~IsBreak(n)) =>
                /\ ScopeKept(n)
                /\ ChildMeetsSameTop(n)
                /\ IF IsIgnored(tree[n])
                   THEN ~HasEdge(n)
                   ELSE AttachedToTop(n)

\* A node of an unknown kind has been attached under an open scope other
\* than the root, and its first child, a list, has been skipped after it.
NonContainersKeepScopeWitness ==
    /\ phase = "visit"
    /\ pc - 2 \in Nodes
    /\ tree[pc - 2].type = "custom"
    /\ tree[pc - 1].type = "list"
    /\ tree[pc - 1].parent = pc - 2
    /\ HasEdge(pc - 2)
    /\ ContainerOf(pc - 2) # Root
    /\ containerStack = entryStack[pc - 2]


----------------------------------------------------------------------------
\* The containers of the edges emitted by the pass.
EdgeContainers == { edges[i].container : i \in DOMAIN edges }

\* The members of the edges with container c, in emission order.
EdgeMembers(c) ==
    LET at == SelectSeq([i \in DOMAIN edges |-> i],
                        LAMBDA i : edges[i].container = c)
    IN [k \in DOMAIN at |-> edges[at[k]].member]

(* C29  buildContainmentTree agrees with the edge stream: when a call has  *)
(* returned, every container that received an edge in its pass carries in  *)
(* containedNodes exactly the members of the edges with that container, in *)
(* emission order, and these member lists together have as many entries    *)
(* as edges were emitted.                                                  *)
TreeAgreesWithEdges ==
    phase = "built" =>
        /\ EdgeContainers \subseteq DOMAIN containedNodes
        /\ \A c \in EdgeContainers : containedNodes[c] = EdgeMembers(c)
        /\ TotalMembers(containedNodes, EdgeContainers) = Len(edges)

\* A call has returned after a pass that gave one container two members
\* with an edge of another container between them.
TreeAgreesWithEdgesWitness ==
    /\ phase = "built"
    /\ \E i, j, k \in DOMAIN edges :
          /\ i < j /\ j < k
          /\ edges[i].container = edges[k].container
          /\ edges[j].container # edges[i].container
          /\ containedNodes[edges[i].container]
                = <<edges[i].member, edges[k].member>>


----------------------------------------------------------------------------
(* C30  The adjacency is rebuilt fully on every pass: when a call of       *)
(* buildContainmentTree has returned, on a tree that may have been edited  *)
(* since the call before, getContainedNodes gives for every node of the    *)
(* tree the members of the edges of that call with the node as container,  *)
(* which is the empty list for a node that had members in an earlier call  *)
(* and received none in this one.                                          *)
AdjacencyRebuilt ==
    phase = "built" =>
        \A n \in Nodes :
            getContainedNodes(containedNodes, n).nodes = EdgeMembers(n)


----------------------------------------------------------------------------
\* The covering nodes of minimal area.
Smallest == { n \in Covering : \A m \in Covering : AreaOf(n) <= AreaOf(m) }

(* C31  Tie-break in findNodeAtCursor: among the covering nodes that share *)
(* the minimal area the one visited first in the pre-order scan is         *)
(* returned; when a node and one of its descendants have the same span and *)
(* both cover the cursor, the descendant is not returned.                  *)
FirstFoundWins ==
    (phase = "found" /\ matchingNode # 0) =>
        /\ matchingNode \in Smallest
        /\ \A m \in Smallest : matchingNode <= m
        /\ \A a, d \in Covering :
              (Descendant(d, a) /\ position[d] = position[a]) => matchingNode # d

\* The node returned has a descendant with its own span, and a covering
\* ancestor of larger area.
FirstFoundWinsWitness ==
    /\ phase = "found"
    /\ matchingNode > Root
    /\ \E d \in Smallest :
          /\ Descendant(d, matchingNode)
          /\ position[d] = position[matchingNode]
    /\ \E m \in Covering : AreaOf(matchingNode) < AreaOf(m)


----------------------------------------------------------------------------
MultiLine(span) == span.has /\ span.end.line > span.start.line

SingleLine(span) == span.has /\ span.end.line = span.start.line

(* C32  Area ordering: the area of every span that ends on a later line    *)
(* than it starts is greater than the area of every span that starts and   *)
(* ends on one line, whatever the columns are.                             *)
MultiLineIsLarger ==
    phase = "measured" =>
        \A n1, n2 \in DOMAIN nodeArea :
            (MultiLine(position[n1]) /\ SingleLine(position[n2]))
                => nodeArea[n1].val > nodeArea[n2].val


----------------------------------------------------------------------------
\* An init-success response was posted before the response at position i.
InitAnsweredBefore(i) ==
    \E j \in 1..(i - 1) : responses[j].type = "init-success"

\* The positions of the responses that carry the id of a request.
ResponsesTo(id) == { i \in DOMAIN responses : responses[i].id = id }

(* C33  Worker initialization gate: a query or persist request is answered *)
(* with a success response only if an init request was answered with       *)
(* init-success before; before that every query or persist request is      *)
(* answered with an error response that carries the id and the type of     *)
(* the request; and every request whose handler has finished has exactly   *)
(* one response carrying its id, no request more than one.                 *)
InitializationGate ==
    /\ \A i \in DOMAIN responses :
          LET request == received[responses[i].id]
          IN request.type \in {"query", "persist"} =>
                /\ responses[i].type \in {"query-success", "persist-success"}
                      => InitAnsweredBefore(i)
                /\ ~InitAnsweredBefore(i) =>
                      responses[i] = [id |-> request.id, type |-> "error",
                                      requestType |-> request.type]
    /\ \A id \in DOMAIN received :
          Cardinality(ResponsesTo(id)) = IF id \in suspended THEN 0 ELSE 1

\* A query was refused, then an init request succeeded, then a query
\* succeeded.
InitializationGateWitness ==
    \E i, j, k \in DOMAIN responses :
        /\ i < j /\ j < k
        /\ responses[i].type = "error" /\ responses[i].requestType = "query"
        /\ responses[j].type = "init-success"
        /\ responses[k].type = "query-success"


----------------------------------------------------------------------------
\* The nodes of the tree handed to a call.
NodesOfCall(call) == { <<call, i>> : i \in 1..Len(serviceCalls[call].ast) }

(* C34  processAst returns the number of nodes of the tree it was given,   *)
(* and when it returns the service holds one identifier for each node of   *)
(* that tree, no two alike, however the awaits of the calls on one service *)
(* instance overlap.                                                       *)
ProcessAstCountsOwnNodes ==
    [][ \A call \in DOMAIN serviceCalls :
            (serviceCalls[call].at = "transaction"
                /\ serviceCalls'[call].at = "returned") =>
                /\ serviceCalls'[call].result = Len(serviceCalls[call].ast)
                /\ NodesOfCall(call) \subseteq DOMAIN nodeIDs'
                /\ \A m, n \in NodesOfCall(call) :
                      m # n => nodeIDs'[m] # nodeIDs'[n] ]_vars


----------------------------------------------------------------------------
\* The member of an edge emitted before position i.
EarlierMember(n, i) == \E j \in 1..(i - 1) : edges[j].member = n

\* n reaches the root by following at most k emitted edges upwards.
RECURSIVE ReachesRoot(_, _)
ReachesRoot(n, k) ==
    \/ n = Root
    \/ k > 0 /\ HasEdge(n) /\ ReachesRoot(ContainerOf(n), k - 1)

\* n is the container of the container ... of itself.
RECURSIVE ContainsItself(_, _, _)
ContainsItself(n, m, k) ==
    /\ k > 0
    /\ HasEdge(m)
    /\ \/ ContainerOf(m) = n
       \/ ContainsItself(n, ContainerOf(m), k - 1)

\* The containedNodes fields are those the pass of the call gave: the tree
\* was fresh, or what it carried was overwritten.
FreshlyBuilt == DOMAIN containedNodes = EdgeContainers

(* C35  The emitted edges form a tree rooted at the root: the container of *)
(* every edge is a root, heading, list item or blockquote and is the root  *)
(* or the member of an earlier edge of the pass; no node is its own        *)
(* transitive container and every member reaches the root through the     *)
(* edges; and the rendering of a tree built from a fresh tree has no line  *)
(* with the circular-reference marker.                                     *)
EdgesFormTree ==
    Running =>
        /\ \A i \in DOMAIN edges :
              /\ tree[edges[i].container].type
                    \in {"root", "heading", "listItem", "blockquote"}
              /\ edges[i].container = Root \/ EarlierMember(edges[i].container, i)
        /\ \A n \in Nodes : ~ContainsItself(n, n, Len(edges))
        /\ \A i \in DOMAIN edges : ReachesRoot(edges[i].member, Len(edges))
        /\ (phase \in {"inspect", "inspected"} /\ FreshlyBuilt) =>
              \A l \in DOMAIN output : output[l].kind # "circular"

\* A fresh tree with a paragraph in a heading in the root has been built
\* and rendered to the end: one line for every member.
EdgesFormTreeWitness ==
    /\ phase = "inspected"
    /\ FreshlyBuilt
    /\ \E p \in Nodes : /\ HasEdge(p)
                        /\ HasEdge(ContainerOf(p))
                        /\ IsHeading(ContainerOf(p))
                        /\ ContainerOf(ContainerOf(p)) = Root
    /\ Len(output) = Len(edges) + 1


----------------------------------------------------------------------------
(* C36  Scopes of list items and blockquotes do not outlive their subtree: *)
(* in every emitted edge whose container is a list item or a blockquote    *)
(* the container is a structural ancestor of the member.                   *)
ScopesEndWithSubtree ==
    \A i \in DOMAIN edges :
        IsItemOrQuote(edges[i].container)
            => Descendant(edges[i].member, edges[i].container)


----------------------------------------------------------------------------
\* The positions of the headings in the container stack.
HeadingsOnStack == { i \in DOMAIN containerStack : IsHeading(containerStack[i]) }

(* C37  Heading depths on the stack are strictly increasing: in every      *)
(* state of a pass the headings in the container stack, from bottom to     *)
(* top and with the list items and blockquotes between them left out,      *)
(* have strictly increasing depth.                                         *)
HeadingDepthsIncrease ==
    Running =>
        \A i, j \in HeadingsOnStack :
            i < j => tree[containerStack[i]].depth < tree[containerStack[j]].depth

\* Two headings are open with a list item or blockquote open above them.
HeadingDepthsIncreaseWitness ==
    /\ Running
    /\ Cardinality(HeadingsOnStack) >= 2
    /\ IsItemOrQuote(Top(containerStack))


----------------------------------------------------------------------------
\* The requests sent whose promise nobody has settled.
Unsettled == { id \in DOMAIN posted : promise[id].state = "pending" }

(* C38  KuzuClient settles each request at most once: whatever the order   *)
(* of responses, timeouts, worker errors and close, resolve or reject is   *)
(* called at most once for the promise of a request, and the map of        *)
(* pending handlers holds exactly the ids of the requests that were sent   *)
(* and are not settled.                                                    *)
SettledAtMostOnce ==
    /\ \A id \in DOMAIN promise :
          promise[id].settles = IF promise[id].state = "pending" THEN 0 ELSE 1
    /\ messageHandlers = Unsettled

\* After close one request is resolved, one rejected by the close, and a
\* request sent after the worker was terminated waits.
SettledAtMostOnceWitness ==
    /\ terminated
    /\ \E id \in DOMAIN promise : promise[id].state = "resolved"
    /\ \E id \in DOMAIN promise :
          promise[id].state = "rejected" /\ promise[id].template = "Worker terminated"
    /\ \E id \in messageHandlers : id > closing


----------------------------------------------------------------------------
(* C39  KuzuClient requests always settle: with timers that fire unless    *)
(* they are cleared, every request sent is eventually resolved or          *)
(* rejected, a request sent after close has terminated the worker and a    *)
(* request that gets no response included.  A promise is never removed and  *)
(* a settled one stays settled, so "infinitely often sent implies settled"  *)
(* is "sent leads to settled".                                              *)
RequestsAlwaysSettle ==
    \A id \in 1..MaxRequests :
        []<>(id \in DOMAIN promise => promise[id].state # "pending")

\* A request sent after close had terminated the worker got no response and
\* was rejected by its timeout.
RequestsAlwaysSettleWitness ==
    /\ terminated
    /\ \E id \in DOMAIN promise :
          /\ id > closing
          /\ promise[id].state = "rejected"
          /\ promise[id].template = "Request timed out after <timeout>ms: <type>"

====
